---- MODULE Spec2Model ----
(***************************************************************************)
(* Model of deadlock-api-ingest: the passive HTTP-request reconstruction   *)
(* pipeline (connection key, stream buffer, request extractor, identifier  *)
(* parser) and the retrying delivery stage driven by HttpListener::listen. *)
(*                                                                         *)
(* Data representation                                                     *)
(*   byte slice (&[u8], Vec<u8>)  : sequence of integers 0..255            *)
(*   text (&str, String)          : sequence of Unicode scalar values      *)
(*   Option<T>                    : <<>> for None, <<v>> for Some(v)       *)
(*   u32 / u64 values             : canonical decimal digit sequences      *)
(*                                  (most significant digit first, no      *)
(*                                  leading zero, zero is <<0>>), so that  *)
(*                                  the full 64-bit width is representable *)
(***************************************************************************)
EXTENDS Integers, Sequences, FiniteSets, TLC

(***************************************************************************)
(* Option values and slices                                                *)
(***************************************************************************)
None == <<>>
Some(v) == <<v>>
IsSome(o) == o # <<>>
IsNone(o) == o = <<>>
Unwrap(o) == o[1]

\* a local binding, like a Rust let: Let([x \in {v} |-> e]) is e with x bound
\* to the value of v, which is evaluated once
Let(f) == CHOOSE r \in {g[CHOOSE d \in DOMAIN g : TRUE] : g \in {f}} : TRUE

\* s[a..b] with Rust's 0-based, half-open indices
Slice(s, a, b) == SubSeq(s, a + 1, b)
\* s[a..]
SliceFrom(s, a) == SubSeq(s, a + 1, Len(s))

(***************************************************************************)
(* Text literals: B("GET ") is the byte string b"GET ".                    *)
(***************************************************************************)
\* the printable ASCII characters 32..95 and 97..126, in code order
AsciiLow == " !\"#$%&'()*+,-./0123456789:;<=>?@ABCDEFGHIJKLMNOPQRSTUVWXYZ[\\]^_"
AsciiHigh == "abcdefghijklmnopqrstuvwxyz{|}~"

CodeOf(ch) ==
    IF ch = "\r" THEN 13
    ELSE IF ch = "\n" THEN 10
    ELSE IF ch = "\t" THEN 9
    ELSE IF \E i \in 1..Len(AsciiLow) : SubSeq(AsciiLow, i, i) = ch
         THEN 31 + (CHOOSE i \in 1..Len(AsciiLow) : SubSeq(AsciiLow, i, i) = ch)
         ELSE 96 + (CHOOSE i \in 1..Len(AsciiHigh) : SubSeq(AsciiHigh, i, i) = ch)

B(str) == [i \in 1..Len(str) |-> CodeOf(SubSeq(str, i, i))]

(***************************************************************************)
(* memchr::memmem::find and the str search methods used by the parsers.    *)
(* Find returns Some(0-based index of the first occurrence) or None.       *)
(***************************************************************************)
Find(hay, needle) ==
    Let([h \in {hay} |-> Let([n \in {needle} |->
        LET last == Len(h) - Len(n)
            Occurs(i) == Slice(h, i, i + Len(n)) = n
        IN  IF \E i \in 0..last : Occurs(i)
            THEN Some(CHOOSE i \in 0..last :
                          Occurs(i) /\ \A j \in 0..(i - 1) : ~Occurs(j))
            ELSE None])])

RFind(hay, needle) ==
    Let([h \in {hay} |-> Let([n \in {needle} |->
        LET last == Len(h) - Len(n)
            Occurs(i) == Slice(h, i, i + Len(n)) = n
        IN  IF \E i \in 0..last : Occurs(i)
            THEN Some(CHOOSE i \in 0..last :
                          Occurs(i) /\ \A j \in (i + 1)..last : ~Occurs(j))
            ELSE None])])

Contains(s, pat) == IsSome(Find(s, pat))
StartsWith(s, pat) == Len(s) >= Len(pat) /\ Slice(s, 0, Len(pat)) = pat
EndsWith(s, pat) == Len(s) >= Len(pat) /\ SliceFrom(s, Len(s) - Len(pat)) = pat

\* str::strip_prefix / str::strip_suffix
StripPrefix(s, pat) == IF StartsWith(s, pat) THEN Some(SliceFrom(s, Len(pat))) ELSE None
StripSuffix(s, pat) == IF EndsWith(s, pat) THEN Some(Slice(s, 0, Len(s) - Len(pat))) ELSE None

\* str::split_once / str::rsplit_once: Some(<<before, after>>) or None
SplitOnce(s, pat) ==
    Let([p \in {Find(s, pat)} |->
        IF IsNone(p) THEN None
        ELSE Some(<<Slice(s, 0, p[1]), SliceFrom(s, p[1] + Len(pat))>>)])

RSplitOnce(s, pat) ==
    Let([p \in {RFind(s, pat)} |->
        IF IsNone(p) THEN None
        ELSE Some(<<Slice(s, 0, p[1]), SliceFrom(s, p[1] + Len(pat))>>)])

\* char::is_whitespace (Unicode White_Space)
IsWhitespace(c) ==
    \/ c \in {9, 10, 11, 12, 13, 32, 133, 160, 5760, 8232, 8233, 8239, 8287, 12288}
    \/ (c >= 8192 /\ c <= 8202)

\* str::trim_start / trim_end / trim
TrimStart(s) ==
    Let([t \in {s} |->
        IF \A i \in 1..Len(t) : IsWhitespace(t[i]) THEN <<>>
        ELSE SubSeq(t, CHOOSE i \in 1..Len(t) :
                           ~IsWhitespace(t[i])
                           /\ \A j \in 1..(i - 1) : IsWhitespace(t[j]),
                    Len(t))])

TrimEnd(s) ==
    Let([t \in {s} |->
        IF \A i \in 1..Len(t) : IsWhitespace(t[i]) THEN <<>>
        ELSE SubSeq(t, 1, CHOOSE i \in 1..Len(t) :
                              ~IsWhitespace(t[i])
                              /\ \A j \in (i + 1)..Len(t) : IsWhitespace(t[j]))])

Trim(s) == TrimEnd(TrimStart(s))

\* str::trim_start_matches(ch)
TrimStartMatches(s, ch) ==
    Let([t \in {s} |->
        IF \A i \in 1..Len(t) : t[i] = ch THEN <<>>
        ELSE SubSeq(t, CHOOSE i \in 1..Len(t) :
                           t[i] # ch /\ \A j \in 1..(i - 1) : t[j] = ch,
                    Len(t))])

\* str::split_whitespace, collected: the non-empty maximal runs of non-whitespace
RECURSIVE SplitWhitespace(_)
SplitWhitespace(s) ==
    Let([t \in {TrimStart(s)} |->
        IF t = <<>> THEN <<>>
        ELSE Let([e \in {IF \E i \in 1..Len(t) : IsWhitespace(t[i])
                  THEN (CHOOSE i \in 1..Len(t) :
                            IsWhitespace(t[i])
                            /\ \A j \in 1..(i - 1) : ~IsWhitespace(t[j])) - 1
                  ELSE Len(t)} |->
                 <<SubSeq(t, 1, e)>> \o SplitWhitespace(SubSeq(t, e + 1, Len(t)))])])

Lit_LF == <<10>>
Lit_CR == <<13>>

\* str::lines, collected: split after each '\n'; a piece that ends in '\n'
\* loses it and then one '\r' before it; a last piece without '\n' is kept as is
RECURSIVE Lines(_)
Lines(s) ==
    Let([t \in {s} |->
        IF t = <<>> THEN <<>>
        ELSE Let([nl \in {Find(t, Lit_LF)} |->
                 IF IsNone(nl) THEN <<t>>
                 ELSE Let([line \in {Slice(t, 0, nl[1])} |->
                          <<IF EndsWith(line, Lit_CR)
                            THEN Slice(line, 0, Len(line) - 1) ELSE line>>
                          \o Lines(SliceFrom(t, nl[1] + 1))])])])

\* u8::to_ascii_lowercase on every element, as eq_ignore_ascii_case compares
AsciiLower(s) ==
    Let([t \in {s} |->
        [i \in 1..Len(t) |-> IF t[i] >= 65 /\ t[i] <= 90 THEN t[i] + 32 ELSE t[i]]])
EqIgnoreAsciiCase(a, b) == AsciiLower(a) = AsciiLower(b)

\* str::from_utf8 with the String::from_utf8_lossy fallback.  Bytes below 128
\* decode to themselves.  The frames of this model carry, above 127, only bytes
\* that start no valid UTF-8 sequence where they stand, and each of those is
\* replaced by one U+FFFD.
Utf8Lossy(bytes) ==
    Let([t \in {bytes} |->
        [i \in 1..Len(t) |-> IF t[i] < 128 THEN t[i] ELSE 65533]])

(***************************************************************************)
(* Unsigned integers as canonical decimal digit sequences.                 *)
(***************************************************************************)
\* drop leading zeros, keeping one digit
Canon(d) ==
    Let([t \in {TrimStartMatches(d, 0)} |-> IF t = <<>> THEN <<0>> ELSE t])

\* a < b on canonical digit sequences
DecLt(a, b) ==
    \/ Len(a) < Len(b)
    \/ /\ Len(a) = Len(b)
       /\ \E i \in 1..Len(a) : a[i] < b[i] /\ \A j \in 1..(i - 1) : a[j] = b[j]

DecGt(a, b) == DecLt(b, a)

U32_MAX == <<4, 2, 9, 4, 9, 6, 7, 2, 9, 5>>
U64_MAX == <<1, 8, 4, 4, 6, 7, 4, 4, 0, 7, 3, 7, 0, 9, 5, 5, 1, 6, 1, 5>>

\* <u32|u64 as FromStr>::from_str: an optional '+', then one or more ASCII
\* digits, and the value must fit the width; anything else is an error
ParseUnsigned(s, max) ==
    Let([body \in {IF Len(s) > 0 /\ s[1] = 43 THEN SliceFrom(s, 1) ELSE s} |->
        IF body = <<>> THEN None
        ELSE IF \E i \in 1..Len(body) : body[i] < 48 \/ body[i] > 57 THEN None
        ELSE Let([v \in {Canon([i \in 1..Len(body) |-> body[i] - 48])} |->
                 IF DecGt(v, max) THEN None ELSE Some(v)])])

(***************************************************************************)
(* The text literals of the parsers                                        *)
(***************************************************************************)
Lit_GET == B("GET ")
Lit_CRLFCRLF == B("\r\n\r\n")
Lit_CRLF == B("\r\n")
Lit_SP == B(" ")
Lit_TAB == B("\t")
Lit_COLON == B(":")
Lit_host == B("host")
Lit_http == B("http://")
Lit_https == B("https://")
Lit_SLASH == B("/")
Lit_QUERY == B("?")
Lit_UNDERSCORE == B("_")
Lit_http_replay == B("http://replay")
Lit_valve_net == B(".valve.net/")
Lit_meta_bz2 == B(".meta.bz2")
Lit_dem_bz2 == B(".dem.bz2")

(***************************************************************************)
(* Request Extractor: src/http/parser.rs                                   *)
(***************************************************************************)
\* the cap on a region whose header block has not ended yet
PARTIAL_REGION_CAP == 1024

\* find_http_in_packet without the cap on a region that has no double CRLF
FindHttpInPacket_Uncapped(data) ==
    Let([d \in {data} |-> Let([pos \in {Find(d, Lit_GET)} |->
        IF IsNone(pos) THEN None
        ELSE Let([r \in {SliceFrom(d, pos[1])} |->
             Let([end \in {Find(r, Lit_CRLFCRLF)} |->
                 Some(Utf8Lossy(IF IsSome(end) THEN Slice(r, 0, end[1] + 4)
                                ELSE r))])])])])

\* find_http_in_packet: the region from the first "GET " up to and including
\* the first "\r\n\r\n" after it, or else at most 1024 bytes of it, decoded
FindHttpInPacket(data) ==
    Let([d \in {data} |-> Let([pos \in {Find(d, Lit_GET)} |->
        IF IsNone(pos) THEN None
        ELSE Let([r \in {SliceFrom(d, pos[1])} |->
             Let([end \in {Find(r, Lit_CRLFCRLF)} |->
                 Some(Utf8Lossy(IF IsSome(end) THEN Slice(r, 0, end[1] + 4)
                                ELSE Slice(r, 0, IF Len(r) < PARTIAL_REGION_CAP
                                                 THEN Len(r)
                                                 ELSE PARTIAL_REGION_CAP)))])])])])

\* the loop of unfold_http_headers over the lines after the request line
RECURSIVE UnfoldLoop(_, _, _, _)
UnfoldLoop(lines, i, result, current_line) ==
    Let([res \in {result} |-> Let([cur \in {current_line} |->
        IF i > Len(lines)
        THEN IF cur # <<>> THEN res \o cur \o Lit_CRLF ELSE res
        ELSE Let([line \in {lines[i]} |->
                 IF StartsWith(line, Lit_SP) \/ StartsWith(line, Lit_TAB)
                 THEN UnfoldLoop(lines, i + 1, res, cur \o Lit_SP \o Trim(line))
                 ELSE IF cur # <<>>
                      THEN UnfoldLoop(lines, i + 1, res \o cur \o Lit_CRLF, line)
                      ELSE UnfoldLoop(lines, i + 1, res, line)])])])

\* unfold_http_headers
UnfoldHttpHeaders(http_data) ==
    Let([lines \in {Lines(http_data)} |->
        IF lines = <<>> THEN <<>>
        ELSE UnfoldLoop(lines, 2, lines[1] \o Lit_CRLF, <<>>)])

\* the Host lookup of parse_http_request: the header lines, trimmed, up to the
\* first empty one; the value of the first whose name is "host" in any case
RECURSIVE FindHost(_, _)
FindHost(lines, i) ==
    IF i > Len(lines) THEN None
    ELSE Let([l \in {Trim(lines[i])} |->
             IF l = <<>> THEN None
             ELSE Let([nv \in {SplitOnce(l, Lit_COLON)} |->
                      IF IsSome(nv) /\ EqIgnoreAsciiCase(Trim(nv[1][1]), Lit_host)
                      THEN Some(Trim(nv[1][2]))
                      ELSE FindHost(lines, i + 1)])])

\* parse_http_request that prefers the Host header to an absolute target
ParseHttpRequest_HostFirst(http_data) ==
    Let([lines \in {Lines(UnfoldHttpHeaders(http_data))} |->
        IF lines = <<>> THEN None
        ELSE Let([parts \in {SplitWhitespace(Trim(lines[1]))} |->
                 IF Len(parts) < 2 THEN None
                 ELSE Let([path \in {TrimStartMatches(parts[2], 47)} |->
                      Let([host \in {FindHost(lines, 2)} |->
                          IF IsSome(host)
                          THEN Some(Lit_http \o host[1] \o Lit_SLASH \o path)
                          ELSE IF StartsWith(path, Lit_http) \/ StartsWith(path, Lit_https)
                          THEN Some(path)
                          ELSE None])])])])

\* parse_http_request
ParseHttpRequest(http_data) ==
    Let([lines \in {Lines(UnfoldHttpHeaders(http_data))} |->
        IF lines = <<>> THEN None
        ELSE Let([parts \in {SplitWhitespace(Trim(lines[1]))} |->
                 IF Len(parts) < 2 THEN None
                 ELSE Let([path \in {TrimStartMatches(parts[2], 47)} |->
                          IF StartsWith(path, Lit_http) \/ StartsWith(path, Lit_https)
                          THEN Some(path)
                          ELSE Let([host \in {FindHost(lines, 2)} |->
                                   IF IsNone(host) THEN None
                                   ELSE Some(Lit_http \o host[1] \o Lit_SLASH \o path)])])])])

(***************************************************************************)
(* Identifier Parser and delivery record: src/utils.rs                     *)
(***************************************************************************)
\* from_url that keeps the query string
BaseUrl_KeepQuery(url) == url

\* the part of a URL before the first '?'
BaseUrl(url) ==
    Let([q \in {SplitOnce(url, Lit_QUERY)} |-> IF IsSome(q) THEN q[1][1] ELSE url])

\* one arm of Salts::from_url: the name without its suffix is <match>_<salt>
SaltsOfName(cluster_str, name, suffix, is_meta) ==
    Let([stem \in {StripSuffix(name, suffix)} |->
        IF IsNone(stem) THEN None
        ELSE Let([ms \in {SplitOnce(stem[1], Lit_UNDERSCORE)} |->
                 IF IsNone(ms) THEN None
                 ELSE Let([cluster \in {ParseUnsigned(cluster_str, U32_MAX)} |->
                      Let([match \in {ParseUnsigned(ms[1][1], U64_MAX)} |->
                      Let([salt \in {ParseUnsigned(ms[1][2], U32_MAX)} |->
                          IF IsNone(cluster) \/ IsNone(match) THEN None
                          ELSE Some([match_id |-> match[1],
                                     cluster_id |-> cluster[1],
                                     metadata_salt |-> IF is_meta THEN salt ELSE None,
                                     replay_salt |-> IF is_meta THEN None ELSE salt])])])])])])

\* Salts::from_url
FromUrl(url) ==
    Let([rest \in {StripPrefix(BaseUrl(url), Lit_http_replay)} |->
        IF IsNone(rest) THEN None
        ELSE Let([cr \in {SplitOnce(rest[1], Lit_valve_net)} |->
                 IF IsNone(cr) THEN None
                 ELSE Let([seg \in {RSplitOnce(cr[1][2], Lit_SLASH)} |->
                          IF IsNone(seg) THEN None
                          ELSE Let([name \in {seg[1][2]} |->
                                   IF EndsWith(name, Lit_meta_bz2)
                                   THEN SaltsOfName(cr[1][1], name, Lit_meta_bz2, TRUE)
                                   ELSE IF EndsWith(name, Lit_dem_bz2)
                                   THEN SaltsOfName(cr[1][1], name, Lit_dem_bz2, FALSE)
                                   ELSE None])])])])

\* HttpListener::extract_salts
ExtractSalts(payload) ==
    Let([http_packet \in {FindHttpInPacket(payload)} |->
        IF IsNone(http_packet) THEN None
        ELSE Let([url \in {ParseHttpRequest(http_packet[1])} |->
                 IF IsNone(url) THEN None
                 ELSE Let([base_url \in {BaseUrl(url[1])} |->
                          IF ~Contains(base_url, Lit_meta_bz2)
                             /\ ~Contains(base_url, Lit_dem_bz2)
                          THEN None
                          ELSE FromUrl(url[1])])])])

(***************************************************************************)
(* Stream Buffer: src/stream/buffer.rs                                     *)
(* A buffer is [data |-> bytes, last_activity |-> time in seconds].        *)
(***************************************************************************)
MAX_STREAM_BUFFER_SIZE == 16384

\* StreamBuffer::new
StreamBufferNew(t) == [data |-> <<>>, last_activity |-> t]

\* append that replaces the buffered bytes instead of extending them
BufAppend_Overwrite(buffer, payload, t) ==
    IF Len(buffer.data) + Len(payload) <= MAX_STREAM_BUFFER_SIZE
    THEN [data |-> payload, last_activity |-> t]
    ELSE buffer

\* append whose size check looks at the fragment alone
BufAppend_FragmentOnlyCheck(buffer, payload, t) ==
    IF Len(payload) <= MAX_STREAM_BUFFER_SIZE
    THEN [data |-> buffer.data \o payload, last_activity |-> t]
    ELSE buffer

\* append that fills the buffer up to the cap with the head of a fragment
\* too long to fit
BufAppend_Partial(buffer, payload, t) ==
    IF Len(buffer.data) + Len(payload) <= MAX_STREAM_BUFFER_SIZE
    THEN [data |-> buffer.data \o payload, last_activity |-> t]
    ELSE [data |-> buffer.data \o
                     Slice(payload, 0, MAX_STREAM_BUFFER_SIZE - Len(buffer.data)),
          last_activity |-> buffer.last_activity]

\* StreamBuffer::append
BufAppend(buffer, payload, t) ==
    IF Len(buffer.data) + Len(payload) <= MAX_STREAM_BUFFER_SIZE
    THEN [data |-> buffer.data \o payload, last_activity |-> t]
    ELSE buffer

\* StreamBuffer::clear
BufClear(buffer, t) == [data |-> <<>>, last_activity |-> t]

\* StreamBuffer::is_stale
BufIsStale(buffer, timeout, t) == t - buffer.last_activity > timeout

(***************************************************************************)
(* Connection Identifier: src/packet/tcp_stream_id.rs                      *)
(***************************************************************************)
ETHERTYPE_IPV4 == 2048
ETHERTYPE_IPV6 == 34525
IPPROTO_TCP == 6

\* packet[i] with Rust's 0-based index
At(packet, i) == packet[i + 1]
\* u16::from_be_bytes
U16Be(hi, lo) == hi * 256 + lo

\* TcpStreamId::from_ipv4_packet
FromIpv4Packet(packet) ==
    IF Len(packet) < 20 THEN None
    ELSE IF At(packet, 9) # IPPROTO_TCP THEN None
    ELSE Let([ihl \in {(At(packet, 0) % 16) * 4} |->
             IF Len(packet) < ihl + 20 THEN None
             ELSE Let([tcp_header \in {SliceFrom(packet, ihl)} |->
                      IF Len(tcp_header) < 4 THEN None
                      ELSE Some([src_ip |-> <<"V4", Slice(packet, 12, 16)>>,
                                 dst_ip |-> <<"V4", Slice(packet, 16, 20)>>,
                                 src_port |-> U16Be(At(tcp_header, 0), At(tcp_header, 1)),
                                 dst_port |-> U16Be(At(tcp_header, 2), At(tcp_header, 3)),
                                 protocol |-> At(packet, 9)])])])

\* TcpStreamId::from_ipv6_packet
FromIpv6Packet(packet) ==
    IF Len(packet) < 40 THEN None
    ELSE IF At(packet, 6) # IPPROTO_TCP THEN None
    ELSE Let([tcp_header \in {SliceFrom(packet, 40)} |->
             IF Len(tcp_header) < 4 THEN None
             ELSE Some([src_ip |-> <<"V6", Slice(packet, 8, 24)>>,
                        dst_ip |-> <<"V6", Slice(packet, 24, 40)>>,
                        src_port |-> U16Be(At(tcp_header, 0), At(tcp_header, 1)),
                        dst_port |-> U16Be(At(tcp_header, 2), At(tcp_header, 3)),
                        protocol |-> At(packet, 6)])])

\* TcpStreamId::from_ethernet_frame
FromEthernetFrame(packet) ==
    IF Len(packet) < 14 THEN None
    ELSE Let([ethertype \in {U16Be(At(packet, 12), At(packet, 13))} |->
         Let([ip_packet \in {SliceFrom(packet, 14)} |->
             IF ethertype = ETHERTYPE_IPV4 THEN FromIpv4Packet(ip_packet)
             ELSE IF ethertype = ETHERTYPE_IPV6 THEN FromIpv6Packet(ip_packet)
             ELSE None])])

\* TcpStreamId::from_ip_packet
FromIpPacket(packet) ==
    IF packet = <<>> THEN None
    ELSE Let([version \in {(At(packet, 0) \div 16) % 16} |->
             IF version = 4 THEN FromIpv4Packet(packet)
             ELSE IF version = 6 THEN FromIpv6Packet(packet)
             ELSE None])

\* TcpStreamId::from_packet
FromPacket(packet) ==
    Let([eth \in {FromEthernetFrame(packet)} |->
        IF IsSome(eth) THEN eth ELSE FromIpPacket(packet)])

(***************************************************************************)
(* Captured frames offered to the listener.  A frame is what the capture   *)
(* backend yields: link/network/transport header bytes, then TCP data.     *)
(***************************************************************************)
EthernetHeader == <<0, 17, 34, 51, 68, 85, 102, 119, 136, 153, 170, 187, 8, 0>>

\* a 20-byte IPv4 header (IHL 5, protocol TCP) from 192.168.1.<host> to 8.8.4.4
Ipv4Header(host, data_len) ==
    <<69, 0, 0, 40 + data_len, 0, 1, 64, 0, 64, 6, 0, 0, 192, 168, 1, host, 8, 8, 4, 4>>

\* a 20-byte TCP header, source port 12345, destination port 80
TcpHeader == <<48, 57, 0, 80, 0, 0, 0, 1, 0, 0, 0, 0, 80, 24, 114, 16, 0, 0, 0, 0>>

\* link-layer framed (pcap) and raw network-layer (pktmon) frames
EthernetFrame(host, data) == EthernetHeader \o Ipv4Header(host, Len(data)) \o TcpHeader \o data
RawFrame(host, data) == Ipv4Header(host, Len(data)) \o TcpHeader \o data

ReqMeta == B("GET /a/7_5.meta.bz2 HTTP/1.1\r\nHost: replay4.valve.net\r\n\r\n")
ReqDem == B("GET /a/7_6.dem.bz2 HTTP/1.1\r\nHost: replay4.valve.net\r\n\r\n")
ReqOther == B("GET /x HTTP/1.1\r\nHost: e.com\r\n\r\n")
ReqCeiling == B("GET /a/100000000_5.meta.bz2 HTTP/1.1\r\nHost: replay4.valve.net\r\n\r\n")
ReqTooLarge == B("GET /a/100000001_5.meta.bz2 HTTP/1.1\r\nHost: replay4.valve.net\r\n\r\n")

\* ReqMeta travelling in two frames, cut inside the request target
ReqMetaPart1 == B("GET /a/7_5.me")
ReqMetaPart2 == B("ta.bz2 HTTP/1.1\r\nHost: replay4.valve.net\r\n\r\n")

Frames ==
    << EthernetFrame(2, ReqMeta),
       EthernetFrame(2, ReqDem),
       EthernetFrame(2, ReqOther),
       EthernetFrame(3, ReqMetaPart1),
       EthernetFrame(3, ReqMetaPart2),
       RawFrame(4, ReqCeiling),
       RawFrame(4, ReqTooLarge),
       <<0, 1, 2, 3>> >>

\* the position in Frames of each kind of frame
F == [meta |-> 1, dem |-> 2, other |-> 3, part1 |-> 4, part2 |-> 5,
      ceiling |-> 6, toolarge |-> 7, junk |-> 8]

(***************************************************************************)
(* Bounds of the model                                                     *)
(***************************************************************************)
\* payloads the capture source yields over the whole process lifetime
MaxPayloads == 2
\* calls of listen made by the restart loop
MaxListenCalls == 2
\* the clock stops advancing at this many seconds
MaxTime == 34
\* operations applied to the lone StreamBuffer
MaxBufOps == 4
\* marking operations applied to the Ingestion Cache and the listener's sets
MaxCacheOps == 2
\* reads of the capture in a row that give no packet
MaxTimeouts == 1
\* records each of the two workers takes
MaxRounds == 2

(***************************************************************************)
(* State                                                                   *)
(***************************************************************************)
VARIABLES
    lpc,                \* where the worker is: "init", "loop" (listen waits for the
                        \* next payload), "ingest" (inside salts.ingest()),
                        \* "returned" (listen returned to the restart loop),
                        \* "detached" (no listener: a lone ingest call),
                        \* "buffer", "split" (no listener: a lone StreamBuffer)
    listen_result,      \* what the last call of listen returned
    ingested_metadata,  \* listen's local set of match ids
    ingested_replay,    \* listen's local set of match ids
    ingested_urls,      \* the local set of URLs of the platform capture loop
    stream_buffers,     \* listen's table: TcpStreamId -> StreamBuffer
    salts,              \* the Option<Salts> of the current iteration
    now,                \* the monotonic clock, in seconds
    ipc,                \* inside Salts::ingest: "idle", "send", "sleep", "returned"
    attempt,            \* ingest's local counter
    response,           \* what the last send returned
    result,             \* what ingest returned
    sleeps,             \* backoff sleeps taken by the current ingest call
    delivered,          \* (match_id, kind) -> 2xx responses of the collector since
                        \* the last size-triggered clearing of that kind's set
    seen,               \* positions in Frames of the payloads of this listen call
    n_payloads,         \* payloads yielded so far
    n_calls,            \* calls of listen so far
    timeouts,           \* reads of the capture that gave no packet since the last
                        \* one that did
    buf,                \* a lone StreamBuffer, the number of operations applied
                        \* to it and the last one (with its fragment length)
    split,              \* a request, a cut and the two-append reassembly of it
    cache,              \* the process-wide INGESTION_CACHE, the number of marking
                        \* operations applied and the last one
    probe,              \* one call of a pure function: its input and its result
    workers             \* the two workers that share the Ingestion Cache: where each
                        \* is in its check, deliver, mark sequence, its record and
                        \* the pairs it has delivered since the cache was cleared

vars == <<lpc, listen_result, ingested_metadata, ingested_replay, ingested_urls,
          stream_buffers,
          salts, now, ipc, attempt, response, result, sleeps, delivered, seen,
          n_payloads, n_calls, timeouts, buf, split, cache, probe, workers>>

listenVars == <<lpc, listen_result, ingested_metadata, ingested_replay, ingested_urls,
                stream_buffers, seen, n_payloads, n_calls, timeouts>>
ingestVars == <<salts, ipc, attempt, response, result, sleeps, delivered>>
fixtureVars == <<buf, split, cache, probe, workers>>

NoResponse == [kind |-> "none", status |-> 0]

(***************************************************************************)
(* Salts::ingest: src/utils.rs                                             *)
(***************************************************************************)
MATCH_ID_CEILING == <<1, 0, 0, 0, 0, 0, 0, 0, 0>>
MAX_RETRIES == 10
\* seconds slept by the restart loop between two calls of listen
LISTEN_RESTART_SECS == 1
BACKOFF_SECS == 3

\* what `send` can return with ureq's default agent: Ok(response) for a status
\* that is not 4xx/5xx, Err(StatusCode(s)) for 4xx/5xx, Err(other) for
\* transport failures
Responses ==
    { [kind |-> "Ok", status |-> 200],
      [kind |-> "Ok", status |-> 304],
      [kind |-> "StatusCode", status |-> 400],
      [kind |-> "StatusCode", status |-> 500],
      [kind |-> "Io", status |-> 0] }

\* StatusCode::is_success
IsSuccess(status) == status >= 200 /\ status < 300

\* the ceiling check written with >= instead of >
MatchIdTooLarge_Inclusive(match_id) == ~DecLt(match_id, MATCH_ID_CEILING)

\* the guard at the top of ingest
MatchIdTooLarge(match_id) == DecGt(match_id, MATCH_ID_CEILING)

\* the arms with the attempt limit off by one
MatchResponse_OffByOne(r, att) ==
    IF r.kind = "Ok" /\ IsSuccess(r.status) THEN "Ok"
    ELSE IF r.kind = "Ok" /\ att = MAX_RETRIES + 1 THEN "FailedToIngest"
    ELSE IF r.kind # "Ok" /\ (att = MAX_RETRIES + 1 \/ (r.kind = "StatusCode" /\ r.status = 400))
    THEN "Ureq"
    ELSE "retry"

\* the arms without the special case of status 400
MatchResponse_Retry400(r, att) ==
    IF r.kind = "Ok" /\ IsSuccess(r.status) THEN "Ok"
    ELSE IF r.kind = "Ok" /\ att = MAX_RETRIES THEN "FailedToIngest"
    ELSE IF r.kind # "Ok" /\ att = MAX_RETRIES THEN "Ureq"
    ELSE "retry"

\* the arms where a response that is not a success is terminal at once
MatchResponse_NoRetryOnResponse(r, att) ==
    IF r.kind = "Ok" /\ IsSuccess(r.status) THEN "Ok"
    ELSE IF r.kind = "Ok" THEN "FailedToIngest"
    ELSE IF r.kind # "Ok" /\ (att = MAX_RETRIES \/ (r.kind = "StatusCode" /\ r.status = 400))
    THEN "Ureq"
    ELSE "retry"

\* the arms of `match response`, for the given value of `attempt`:
\* what ingest returns, or "retry" for the sleeping arm
MatchResponse(r, att) ==
    IF r.kind = "Ok" /\ IsSuccess(r.status) THEN "Ok"
    ELSE IF r.kind = "Ok" /\ att = MAX_RETRIES THEN "FailedToIngest"
    ELSE IF r.kind # "Ok" /\ (att = MAX_RETRIES \/ (r.kind = "StatusCode" /\ r.status = 400))
    THEN "Ureq"
    ELSE "retry"

\* the salt kinds a record carries
KindsOf(st) ==
    (IF IsSome(st.metadata_salt) THEN {"metadata"} ELSE {})
        \cup (IF IsSome(st.replay_salt) THEN {"replay"} ELSE {})

\* the collector's view: one more successful delivery of each pair of the record
RecordDelivery(d, st) ==
    LET ps == {<<st.match_id, k>> : k \in KindsOf(st)}
    IN  [p \in DOMAIN d \cup ps |->
            IF p \in ps THEN (IF p \in DOMAIN d THEN d[p] ELSE 0) + 1 ELSE d[p]]

\* entry of ingest: the ceiling check, then the loop starts with attempt = 0
IngestEnter(st) ==
    IF MatchIdTooLarge(st.match_id)
    THEN [ipc |-> "returned", result |-> "MatchIdTooLarge"]
    ELSE [ipc |-> "send", result |-> "none"]

\* one pass of the loop body up to the match: count the attempt, send, match
IngestAttempt ==
    /\ ipc = "send"
    /\ \E r \in Responses :
        LET arm == MatchResponse(r, attempt + 1)
        IN  /\ attempt' = attempt + 1
            /\ response' = r
            /\ ipc' = IF arm = "retry" THEN "sleep" ELSE "returned"
            /\ result' = IF arm = "retry" THEN "none" ELSE arm
            /\ delivered' = IF r.kind = "Ok" /\ IsSuccess(r.status)
                            THEN RecordDelivery(delivered, Unwrap(salts))
                            ELSE delivered
    /\ UNCHANGED <<salts, sleeps, now>>
    /\ UNCHANGED listenVars
    /\ UNCHANGED fixtureVars

\* the retry arm: sleep(3 s), then the next pass.  Nothing reads the clock
\* inside ingest: the time a call took is seen when it has returned (Tick).
IngestSleep ==
    /\ ipc = "sleep"
    /\ sleeps' = sleeps + 1
    /\ response' = NoResponse
    /\ ipc' = "send"
    /\ UNCHANGED <<salts, attempt, result, delivered, now>>
    /\ UNCHANGED listenVars
    /\ UNCHANGED fixtureVars

(***************************************************************************)
(* HttpListener::listen and its restart loop: src/http_listener.rs, lib.rs *)
(***************************************************************************)
MAX_CONCURRENT_STREAMS == 1000
STREAM_TIMEOUT == 30
INGESTED_SET_CAP == 1000

EmptyMap == [x \in {} |-> x]

\* HashSet::insert followed by the clearing of a set grown beyond its cap
InsertCapped(set, id) ==
    LET grown == set \cup {id}
    IN  IF Cardinality(grown) > INGESTED_SET_CAP THEN {} ELSE grown

\* the clean-up emptying a table that has grown beyond the cap
Prune_DropAll(bufs, t) ==
    IF Cardinality(DOMAIN bufs) > MAX_CONCURRENT_STREAMS THEN EmptyMap ELSE bufs

\* "Clean up stale stream buffers"
Prune(bufs, t) ==
    IF Cardinality(DOMAIN bufs) > MAX_CONCURRENT_STREAMS
    THEN [id \in {k \in DOMAIN bufs : ~BufIsStale(bufs[k], STREAM_TIMEOUT, t)} |-> bufs[id]]
    ELSE bufs

\* the loop body clearing the buffer whether or not salts were extracted
Reassemble_ClearAlways(bufs, stream_id, payload, t) ==
    Let([buffer \in {IF stream_id \in DOMAIN bufs THEN bufs[stream_id] ELSE StreamBufferNew(t)} |->
    Let([appended \in {BufAppend(buffer, payload, t)} |->
    Let([st \in {ExtractSalts(appended.data)} |->
        [bufs |-> [id \in DOMAIN bufs \cup {stream_id} |->
                      IF id = stream_id THEN BufClear(appended, t) ELSE bufs[id]],
         salts |-> st]])])])

\* the loop body from the connection key to the clearing of the buffer:
\* the table afterwards and the salts extracted
Reassemble(bufs, stream_id, payload, t) ==
    Let([buffer \in {IF stream_id \in DOMAIN bufs THEN bufs[stream_id] ELSE StreamBufferNew(t)} |->
    Let([appended \in {BufAppend(buffer, payload, t)} |->
    Let([st \in {ExtractSalts(appended.data)} |->
    Let([kept \in {IF IsSome(st) THEN BufClear(appended, t) ELSE appended} |->
        [bufs |-> [id \in DOMAIN bufs \cup {stream_id} |->
                      IF id = stream_id THEN kept ELSE bufs[id]],
         salts |-> st]])])])])

\* is_new_metadata || is_new_replay
IsNew(st, im, ir) ==
    \/ IsSome(st.metadata_salt) /\ st.match_id \notin im
    \/ IsSome(st.replay_salt) /\ st.match_id \notin ir

\* marking without the `continue` of the Err arm
MarkIngested_AlsoOnError(res, st, im, ir) ==
    [metadata |-> IF IsSome(st.metadata_salt) THEN InsertCapped(im, st.match_id) ELSE im,
     replay |-> IF IsSome(st.replay_salt) THEN InsertCapped(ir, st.match_id) ELSE ir]

\* what follows `match salts.ingest()`: on Ok the match id enters the set of
\* each salt kind the record carries; on Err the iteration is abandoned
MarkIngested(res, st, im, ir) ==
    IF res = "Ok"
    THEN [metadata |-> IF IsSome(st.metadata_salt) THEN InsertCapped(im, st.match_id) ELSE im,
          replay |-> IF IsSome(st.replay_salt) THEN InsertCapped(ir, st.match_id) ELSE ir]
    ELSE [metadata |-> im, replay |-> ir]

\* the restart loop calls listen: fresh sets and table, then payloads()
CallListen ==
    /\ lpc = "init"
    /\ n_calls < MaxListenCalls
    /\ n_calls' = n_calls + 1
    /\ timeouts' = 0
    /\ ingested_metadata' = {}
    /\ ingested_replay' = {}
    /\ UNCHANGED ingested_urls
    /\ stream_buffers' = EmptyMap
    /\ seen' = <<>>
    /\ \E ok \in BOOLEAN :
        /\ lpc' = IF ok THEN "loop" ELSE "returned"
        /\ listen_result' = IF ok THEN "none" ELSE "Err"
    /\ UNCHANGED <<n_payloads, now>>
    /\ UNCHANGED ingestVars
    /\ UNCHANGED fixtureVars

\* one payload: key, buffer, append, extract, clear, dedup check; either the
\* iteration ends here (with the pruning) or it enters salts.ingest()
HandlePayload(i) ==
    /\ lpc = "loop"
    /\ n_payloads < MaxPayloads
    /\ n_payloads' = n_payloads + 1
    /\ timeouts' = 0
    /\ seen' = Append(seen, i)
    /\ \E stream_id \in {FromPacket(Frames[i])} :
           IF IsNone(stream_id)
           THEN /\ salts' = None
                /\ UNCHANGED <<lpc, stream_buffers, ipc, result>>
           ELSE \E r \in {Reassemble(stream_buffers, Unwrap(stream_id), Frames[i], now)} :
                    /\ salts' = r.salts
                    /\ IF IsSome(r.salts)
                          /\ IsNew(Unwrap(r.salts), ingested_metadata, ingested_replay)
                       THEN /\ lpc' = "ingest"
                            /\ stream_buffers' = r.bufs
                            /\ \E entered \in {IngestEnter(Unwrap(r.salts))} :
                                   /\ ipc' = entered.ipc
                                   /\ result' = entered.result
                       ELSE /\ stream_buffers' = Prune(r.bufs, now)
                            /\ UNCHANGED <<lpc, ipc, result>>
    /\ UNCHANGED <<listen_result, ingested_metadata, ingested_replay, ingested_urls,
                   n_calls, now,
                   attempt, response, sleeps, delivered>>
    /\ UNCHANGED fixtureVars

\* the Err arm returning the error from listen instead of `continue`
FinishIngest_Propagate ==
    /\ lpc = "ingest"
    /\ ipc = "returned"
    /\ LET st == Unwrap(salts)
           m == MarkIngested(result, st, ingested_metadata, ingested_replay)
           cleared == (IF m.metadata = {} /\ ingested_metadata # {} THEN {"metadata"} ELSE {})
                        \cup (IF m.replay = {} /\ ingested_replay # {} THEN {"replay"} ELSE {})
       IN  /\ ingested_metadata' = m.metadata
           /\ ingested_replay' = m.replay
           /\ delivered' = [p \in {q \in DOMAIN delivered : q[2] \notin cleared} |-> delivered[p]]
           /\ stream_buffers' = IF result = "Ok" THEN Prune(stream_buffers, now)
                                ELSE stream_buffers
    /\ lpc' = IF result = "Ok" THEN "loop" ELSE "returned"
    /\ listen_result' = IF result = "Ok" THEN listen_result ELSE "Err"
    /\ ipc' = "idle"
    /\ attempt' = 0
    /\ sleeps' = 0
    /\ response' = NoResponse
    /\ result' = "none"
    /\ UNCHANGED <<ingested_urls, salts, seen, n_payloads, n_calls, timeouts, now>>
    /\ UNCHANGED fixtureVars

\* salts.ingest() has returned: mark and prune on Ok, `continue` on Err
FinishIngest ==
    /\ lpc = "ingest"
    /\ ipc = "returned"
    /\ LET st == Unwrap(salts)
           m == MarkIngested(result, st, ingested_metadata, ingested_replay)
           cleared == (IF m.metadata = {} /\ ingested_metadata # {} THEN {"metadata"} ELSE {})
                        \cup (IF m.replay = {} /\ ingested_replay # {} THEN {"replay"} ELSE {})
       IN  /\ ingested_metadata' = m.metadata
           /\ ingested_replay' = m.replay
           /\ delivered' = [p \in {q \in DOMAIN delivered : q[2] \notin cleared} |-> delivered[p]]
           /\ stream_buffers' = IF result = "Ok" THEN Prune(stream_buffers, now)
                                ELSE stream_buffers
    /\ lpc' = "loop"
    /\ ipc' = "idle"
    /\ attempt' = 0
    /\ sleeps' = 0
    /\ response' = NoResponse
    /\ result' = "none"
    /\ UNCHANGED <<ingested_urls, listen_result, salts, seen, n_payloads, n_calls, timeouts, now>>
    /\ UNCHANGED fixtureVars

\* a read of the capture times out: the closure of payloads() loops and
\* reads again, nothing is yielded to listen
ReadTimeout ==
    /\ lpc = "loop"
    /\ timeouts < MaxTimeouts
    /\ timeouts' = timeouts + 1
    /\ UNCHANGED <<lpc, listen_result, ingested_metadata, ingested_replay, ingested_urls,
                   stream_buffers, seen, n_payloads, n_calls, now>>
    /\ UNCHANGED ingestVars
    /\ UNCHANGED fixtureVars

\* the payload iterator ends (a fatal read error of the capture): listen returns Ok(())
SourceEnd ==
    /\ lpc = "loop"
    /\ lpc' = "returned"
    /\ listen_result' = "Ok"
    /\ timeouts' = 0
    /\ UNCHANGED <<ingested_metadata, ingested_replay, ingested_urls, stream_buffers, seen,
                   n_payloads, n_calls, now>>
    /\ UNCHANGED ingestVars
    /\ UNCHANGED fixtureVars

\* the restart loop with the Err arm leaving the loop, as `listen()?` would
RestartSleep_OnlyAfterOk ==
    /\ lpc = "returned"
    /\ listen_result = "Ok"
    /\ now + LISTEN_RESTART_SECS <= MaxTime
    /\ now' = now + LISTEN_RESTART_SECS
    /\ lpc' = "init"
    /\ UNCHANGED <<listen_result, ingested_metadata, ingested_replay, ingested_urls,
                   stream_buffers, seen, n_payloads, n_calls, timeouts>>
    /\ UNCHANGED ingestVars
    /\ UNCHANGED fixtureVars

\* the restart loop after listen returned: an Err is logged, then the thread
\* sleeps for the fixed delay and goes round the loop to call listen again
RestartSleep ==
    /\ lpc = "returned"
    /\ now + LISTEN_RESTART_SECS <= MaxTime
    /\ now' = now + LISTEN_RESTART_SECS
    /\ lpc' = "init"
    /\ UNCHANGED <<listen_result, ingested_metadata, ingested_replay, ingested_urls,
                   stream_buffers, seen, n_payloads, n_calls, timeouts>>
    /\ UNCHANGED ingestVars
    /\ UNCHANGED fixtureVars

\* time passes, more than the stream timeout at once: between two payloads,
\* or during the call of ingest that has just returned
Tick ==
    /\ lpc \in {"loop", "buffer"} \/ (lpc = "ingest" /\ ipc = "returned")
    /\ now + STREAM_TIMEOUT + 1 <= MaxTime
    /\ now' = now + STREAM_TIMEOUT + 1
    /\ UNCHANGED listenVars
    /\ UNCHANGED ingestVars
    /\ UNCHANGED fixtureVars

NoBuf == [b |-> StreamBufferNew(0), ops |-> 0, last |-> <<"none", 0>>]
NoSplit == [req |-> <<>>, cut |-> 0, stage |-> "none", buffer |-> StreamBufferNew(0),
            salts |-> None, url |-> None]
NoCache == [entries |-> EmptyMap, ops |-> 0, last |-> <<>>]
NoProbe == [fn |-> "none", input |-> <<>>, output |-> <<>>, done |-> FALSE]

Init ==
    /\ lpc = "init"
    /\ listen_result = "none"
    /\ ingested_metadata = {}
    /\ ingested_replay = {}
    /\ ingested_urls = {}
    /\ stream_buffers = EmptyMap
    /\ salts = None
    /\ now = 0
    /\ workers = <<>>
    /\ ipc = "idle"
    /\ attempt = 0
    /\ response = NoResponse
    /\ result = "none"
    /\ sleeps = 0
    /\ delivered = EmptyMap
    /\ seen = <<>>
    /\ n_payloads = 0
    /\ n_calls = 0
    /\ timeouts = 0
    /\ buf = NoBuf
    /\ split = NoSplit
    /\ cache = NoCache
    /\ probe = NoProbe

Next ==
    \/ CallListen
    \/ \E i \in 1..Len(Frames) : HandlePayload(i)
    \/ IngestAttempt
    \/ IngestSleep
    \/ FinishIngest
    \/ ReadTimeout
    \/ SourceEnd
    \/ RestartSleep
    \/ Tick

Spec == Init /\ [][Next]_vars

\* the worker thread keeps running: a listen that has returned is followed by
\* the sleep, and the sleep by the next call
FairSpec == Spec /\ WF_vars(RestartSleep) /\ WF_vars(CallListen)

\* listen some way into a call: the connection table already holds buffers of
\* many other connections, created at time 0; one more payload is to come
InitPrune ==
    /\ lpc = "loop"
    /\ listen_result = "none"
    /\ ingested_metadata = {}
    /\ ingested_replay = {}
    /\ ingested_urls = {}
    /\ \E n \in {MAX_CONCURRENT_STREAMS - 1, MAX_CONCURRENT_STREAMS} :
        stream_buffers =
            [id \in {[src_ip |-> <<"V4", <<10, 0, 0, 9>>>>,
                      dst_ip |-> <<"V4", <<8, 8, 4, 4>>>>,
                      src_port |-> k, dst_port |-> 80, protocol |-> IPPROTO_TCP] :
                     k \in 1..n} |-> StreamBufferNew(0)]
    /\ salts = None
    /\ now = 0
    /\ workers = <<>>
    /\ ipc = "idle"
    /\ attempt = 0
    /\ response = NoResponse
    /\ result = "none"
    /\ sleeps = 0
    /\ delivered = EmptyMap
    /\ seen = <<>>
    /\ n_payloads = MaxPayloads - 1
    /\ n_calls = MaxListenCalls - 1
    /\ timeouts = 0
    /\ buf = NoBuf
    /\ split = NoSplit
    /\ cache = NoCache
    /\ probe = NoProbe

SpecPrune == InitPrune /\ [][Next]_vars

(***************************************************************************)
(* The platform capture loops: src/http_listener_linux.rs and              *)
(* src/http_listener_win.rs, restarted by run() of src/lib.rs              *)
(***************************************************************************)
\* the Recovered URL of a byte blob: find_http_in_packet, then parse_http_request
RecoveredUrl(data) ==
    Let([http_packet \in {FindHttpInPacket(data)} |->
        IF IsNone(http_packet) THEN None ELSE ParseHttpRequest(http_packet[1])])

\* run() calls listen: the capture is set up (device, open, filter), which may
\* fail with `?`, then the loop starts with an empty set of URLs
LegacyCallListen ==
    /\ lpc = "init"
    /\ n_calls < MaxListenCalls
    /\ n_calls' = n_calls + 1
    /\ timeouts' = 0
    /\ seen' = <<>>
    /\ ingested_urls' = {}
    /\ \E ok \in BOOLEAN :
        /\ lpc' = IF ok THEN "loop" ELSE "returned"
        /\ listen_result' = IF ok THEN "none" ELSE "Err"
    /\ UNCHANGED <<ingested_metadata, ingested_replay, stream_buffers, n_payloads, now>>
    /\ UNCHANGED ingestVars
    /\ UNCHANGED fixtureVars

\* one round of the loop. A timed-out or failed read: the loop reads again.
\* A packet: the URL of a request found in it, when it is new and names a
\* metadata file, goes to ingest_salts; its Ok puts the URL in the set, its Err
\* leaves listen through `?`. delivered counts, per URL, the calls of
\* ingest_salts that returned Ok
LegacyRead ==
    /\ lpc = "loop"
    /\ \/ /\ timeouts < MaxTimeouts
          /\ timeouts' = timeouts + 1
          /\ UNCHANGED <<lpc, listen_result, ingested_urls, seen, n_payloads, delivered>>
       \/ \E i \in 1..Len(Frames) :
          /\ n_payloads < MaxPayloads
          /\ n_payloads' = n_payloads + 1
          /\ timeouts' = 0
          /\ seen' = Append(seen, i)
          /\ \E url \in {IF Len(Frames[i]) < 60 THEN None ELSE RecoveredUrl(Frames[i])} :
                IF IsSome(url) /\ url[1] \notin ingested_urls
                               /\ EndsWith(url[1], Lit_meta_bz2)
                THEN \E ok \in BOOLEAN :
                        /\ lpc' = IF ok THEN "loop" ELSE "returned"
                        /\ listen_result' = IF ok THEN listen_result ELSE "Err"
                        /\ ingested_urls' = IF ok THEN ingested_urls \cup {url[1]}
                                            ELSE ingested_urls
                        /\ delivered' =
                            IF ok
                            THEN [u \in DOMAIN delivered \cup {url[1]} |->
                                    (IF u \in DOMAIN delivered THEN delivered[u] ELSE 0)
                                        + (IF u = url[1] THEN 1 ELSE 0)]
                            ELSE delivered
                ELSE UNCHANGED <<lpc, listen_result, ingested_urls, delivered>>
    /\ UNCHANGED <<ingested_metadata, ingested_replay, stream_buffers, n_calls, now>>
    /\ UNCHANGED <<salts, ipc, attempt, response, result, sleeps>>
    /\ UNCHANGED fixtureVars

NextLegacy ==
    \/ LegacyCallListen
    \/ LegacyRead
    \/ RestartSleep

SpecLegacy == Init /\ [][NextLegacy]_vars

(***************************************************************************)
(* Salts::ingest on its own: one call, for each record the parser yields   *)
(***************************************************************************)
IngestRecords ==
    { Unwrap(ExtractSalts(ReqMeta)), Unwrap(ExtractSalts(ReqDem)),
      Unwrap(ExtractSalts(ReqCeiling)), Unwrap(ExtractSalts(ReqTooLarge)) }

InitIngest ==
    /\ lpc = "detached"
    /\ listen_result = "none"
    /\ ingested_metadata = {}
    /\ ingested_replay = {}
    /\ ingested_urls = {}
    /\ stream_buffers = EmptyMap
    /\ \E st \in IngestRecords :
        /\ salts = Some(st)
        /\ ipc = IngestEnter(st).ipc
        /\ result = IngestEnter(st).result
    /\ now = 0
    /\ workers = <<>>
    /\ attempt = 0
    /\ response = NoResponse
    /\ sleeps = 0
    /\ delivered = EmptyMap
    /\ seen = <<>>
    /\ n_payloads = 0
    /\ n_calls = 0
    /\ timeouts = 0
    /\ buf = NoBuf
    /\ split = NoSplit
    /\ cache = NoCache
    /\ probe = NoProbe

NextIngest ==
    \/ IngestAttempt
    \/ IngestSleep

SpecIngest == InitIngest /\ [][NextIngest]_vars

\* the worker thread runs the loop of ingest without interruption, and every
\* send returns
FairSpecIngest == SpecIngest /\ WF_vars(IngestAttempt) /\ WF_vars(IngestSleep)

(***************************************************************************)
(* A lone StreamBuffer under new / append / clear                          *)
(***************************************************************************)
\* fragment lengths: empty, one byte, a large part of the cap, the cap itself,
\* and the over-long fragment of test_stream_buffer_operations
FragmentSizes ==
    {0, 1, 6000, MAX_STREAM_BUFFER_SIZE, MAX_STREAM_BUFFER_SIZE + 1000}

\* a fragment of n bytes, all of value v
Fragment(n, v) == [i \in 1..n |-> v]

BufferNew ==
    /\ lpc = "buffer"
    /\ buf.ops < MaxBufOps
    /\ buf' = [b |-> StreamBufferNew(now), ops |-> buf.ops + 1, last |-> <<"new", 0>>]
    /\ UNCHANGED <<split, cache, probe, now, workers>>
    /\ UNCHANGED listenVars
    /\ UNCHANGED ingestVars

BufferAppend(n) ==
    /\ lpc = "buffer"
    /\ buf.ops < MaxBufOps
    /\ buf' = [b |-> BufAppend(buf.b, Fragment(n, buf.ops + 1), now),
               ops |-> buf.ops + 1, last |-> <<"append", n>>]
    /\ UNCHANGED <<split, cache, probe, now, workers>>
    /\ UNCHANGED listenVars
    /\ UNCHANGED ingestVars

BufferClear ==
    /\ lpc = "buffer"
    /\ buf.ops < MaxBufOps
    /\ buf' = [b |-> BufClear(buf.b, now), ops |-> buf.ops + 1, last |-> <<"clear", 0>>]
    /\ UNCHANGED <<split, cache, probe, now, workers>>
    /\ UNCHANGED listenVars
    /\ UNCHANGED ingestVars

InitBuffer ==
    /\ lpc = "buffer"
    /\ listen_result = "none"
    /\ ingested_metadata = {}
    /\ ingested_replay = {}
    /\ ingested_urls = {}
    /\ stream_buffers = EmptyMap
    /\ salts = None
    /\ now = 0
    /\ workers = <<>>
    /\ ipc = "idle"
    /\ attempt = 0
    /\ response = NoResponse
    /\ result = "none"
    /\ sleeps = 0
    /\ delivered = EmptyMap
    /\ seen = <<>>
    /\ n_payloads = 0
    /\ n_calls = 0
    /\ timeouts = 0
    /\ buf = NoBuf
    /\ split = NoSplit
    /\ cache = NoCache
    /\ probe = NoProbe

NextBuffer ==
    \/ BufferNew
    \/ \E n \in FragmentSizes : BufferAppend(n)
    \/ BufferClear
    \/ Tick

SpecBuffer == InitBuffer /\ [][NextBuffer]_vars

(***************************************************************************)
(* One request cut in two fragments, appended to an empty StreamBuffer by  *)
(* two calls, then given to the Request Extractor                          *)
(***************************************************************************)
SplitRequests ==
    { ReqMeta, ReqDem, ReqOther,
      B("randomdataGET /a/7_5.meta.bz2?v=2 HTTP/1.1\r\nHost: replay4.valve.net\r\n\r\nbody"),
      B("GET /a/7_5.meta.bz2 HTTP/1.1\r\nX: y\r\nHost: replay4\r\n .valve.net\r\n\r\n"),
      B("GET http://replay4.valve.net/a/7_6.dem.bz2 HTTP/1.1\r\n\r\n") }

SplitAppendFirst ==
    /\ split.stage = "start"
    /\ split' = [split EXCEPT !.stage = "first",
                              !.buffer = BufAppend(@, Slice(split.req, 0, split.cut), now)]
    /\ UNCHANGED <<buf, cache, probe, now, workers>>
    /\ UNCHANGED listenVars
    /\ UNCHANGED ingestVars

SplitAppendSecond ==
    /\ split.stage = "first"
    /\ split' = [split EXCEPT !.stage = "second",
                              !.buffer = BufAppend(@, SliceFrom(split.req, split.cut), now)]
    /\ UNCHANGED <<buf, cache, probe, now, workers>>
    /\ UNCHANGED listenVars
    /\ UNCHANGED ingestVars

SplitExtract ==
    /\ split.stage = "second"
    /\ split' = [split EXCEPT !.stage = "done",
                              !.url = RecoveredUrl(split.buffer.data),
                              !.salts = ExtractSalts(split.buffer.data)]
    /\ UNCHANGED <<buf, cache, probe, now, workers>>
    /\ UNCHANGED listenVars
    /\ UNCHANGED ingestVars

InitSplit ==
    /\ lpc = "split"
    /\ listen_result = "none"
    /\ ingested_metadata = {}
    /\ ingested_replay = {}
    /\ ingested_urls = {}
    /\ stream_buffers = EmptyMap
    /\ salts = None
    /\ now = 0
    /\ workers = <<>>
    /\ ipc = "idle"
    /\ attempt = 0
    /\ response = NoResponse
    /\ result = "none"
    /\ sleeps = 0
    /\ delivered = EmptyMap
    /\ seen = <<>>
    /\ n_payloads = 0
    /\ n_calls = 0
    /\ timeouts = 0
    /\ buf = NoBuf
    /\ \E req \in SplitRequests : \E cut \in 0..Len(req) :
        split = [req |-> req, cut |-> cut, stage |-> "start",
                 buffer |-> StreamBufferNew(0), salts |-> None, url |-> None]
    /\ cache = NoCache
    /\ probe = NoProbe

NextSplit ==
    \/ SplitAppendFirst
    \/ SplitAppendSecond
    \/ SplitExtract

SpecSplit == InitSplit /\ [][NextSplit]_vars

(***************************************************************************)
(* Ingestion Cache: src/ingestion_cache.rs, beside the listener's sets     *)
(* cache.entries maps a match id to <<has_metadata, has_replay>>.          *)
(***************************************************************************)
CACHE_CEILING == 10000

\* HashMap::get(&match_id) as an Option
CacheGet(entries, match_id) ==
    IF match_id \in DOMAIN entries THEN Some(entries[match_id]) ELSE None

\* mark_ingested that never clears
CacheMarkIngested_NoClear(entries, salt) ==
    Let([old \in {CacheGet(entries, salt.match_id)} |->
        (salt.match_id :>
            IF IsSome(old)
            THEN <<old[1][1] \/ IsSome(salt.metadata_salt),
                   old[1][2] \/ IsSome(salt.replay_salt)>>
            ELSE <<IsSome(salt.metadata_salt), IsSome(salt.replay_salt)>>) @@ entries])

\* mark_ingested, after the log line: entry().and_modify().or_insert(), then
\* the clearing of a cache grown beyond its ceiling
CacheMarkIngested(entries, salt) ==
    Let([old \in {CacheGet(entries, salt.match_id)} |->
    Let([marked \in {(salt.match_id :>
                         IF IsSome(old)
                         THEN <<old[1][1] \/ IsSome(salt.metadata_salt),
                                old[1][2] \/ IsSome(salt.replay_salt)>>
                         ELSE <<IsSome(salt.metadata_salt), IsSome(salt.replay_salt)>>)
                     @@ entries} |->
        IF Cardinality(DOMAIN marked) > CACHE_CEILING THEN EmptyMap ELSE marked])])

\* is_ingested
CacheIsIngested(entries, match_id, is_metadata) ==
    Let([entry \in {CacheGet(entries, match_id)} |->
        IF IsSome(entry)
        THEN (IF is_metadata THEN entry[1][1] ELSE entry[1][2])
        ELSE FALSE])

\* the decimal digits of a natural number
RECURSIVE Dec(_)
Dec(n) == IF n < 10 THEN <<n>> ELSE Append(Dec(n \div 10), n % 10)

\* the match ids of n earlier deliveries, none of them a match of MarkRecords
EarlierIds(n) == {Dec(20000 + k) : k \in 1..n}

\* a cache and sets that earlier deliveries have left empty, one below the
\* ceiling, or at the ceiling
FillLevels ==
    { [cache |-> 0, sets |-> 0],
      [cache |-> CACHE_CEILING - 1, sets |-> INGESTED_SET_CAP - 1],
      [cache |-> CACHE_CEILING, sets |-> INGESTED_SET_CAP] }

\* the records marked: (7, metadata), (7, replay), (100000000, metadata)
MarkRecords ==
    { Unwrap(ExtractSalts(ReqMeta)), Unwrap(ExtractSalts(ReqDem)),
      Unwrap(ExtractSalts(ReqCeiling)) }

\* a call of mark_ingested
CacheMark(st) ==
    /\ lpc = "cache"
    /\ cache.ops < MaxCacheOps
    /\ cache' = [entries |-> CacheMarkIngested(cache.entries, st),
                 ops |-> cache.ops + 1,
                 last |-> <<"cache", st>>]
    /\ UNCHANGED <<buf, split, probe, now, workers>>
    /\ UNCHANGED listenVars
    /\ UNCHANGED ingestVars

\* the listener's marking after an Ok of ingest
SetsMark(st) ==
    /\ lpc = "cache"
    /\ cache.ops < MaxCacheOps
    /\ \E m \in {MarkIngested("Ok", st, ingested_metadata, ingested_replay)} :
        /\ ingested_metadata' = m.metadata
        /\ ingested_replay' = m.replay
    /\ cache' = [cache EXCEPT !.ops = @ + 1, !.last = <<"sets", st>>]
    /\ UNCHANGED <<lpc, listen_result, ingested_urls, stream_buffers, seen, n_payloads,
                   n_calls, timeouts>>
    /\ UNCHANGED <<buf, split, probe, now, workers>>
    /\ UNCHANGED ingestVars

InitCache ==
    /\ lpc = "cache"
    /\ listen_result = "none"
    /\ ingested_urls = {}
    /\ stream_buffers = EmptyMap
    /\ \E level \in FillLevels :
        /\ ingested_metadata = EarlierIds(level.sets)
        /\ ingested_replay = EarlierIds(level.sets)
        /\ cache = [entries |-> [id \in EarlierIds(level.cache) |-> <<TRUE, FALSE>>],
                    ops |-> 0, last |-> <<>>]
    /\ salts = None
    /\ now = 0
    /\ workers = <<>>
    /\ ipc = "idle"
    /\ attempt = 0
    /\ response = NoResponse
    /\ result = "none"
    /\ sleeps = 0
    /\ delivered = EmptyMap
    /\ seen = <<>>
    /\ n_payloads = 0
    /\ n_calls = 0
    /\ timeouts = 0
    /\ buf = NoBuf
    /\ split = NoSplit
    /\ probe = NoProbe

NextCache ==
    \/ \E st \in MarkRecords : CacheMark(st)
    \/ \E st \in MarkRecords : SetsMark(st)

SpecCache == InitCache /\ [][NextCache]_vars

(***************************************************************************)
(* Two workers that share the Ingestion Cache. Each takes a record, asks   *)
(* is_ingested, delivers the record when the answer is no, and calls       *)
(* mark_ingested after a successful delivery. is_ingested holds the read   *)
(* lock and mark_ingested the write lock of the RwLock for the duration of *)
(* the call only, so each call is one step and the delivery lies between.  *)
(***************************************************************************)
\* one step of worker w
WorkerStep(w) ==
    /\ lpc = "workers"
    /\ \/ \E st \in MarkRecords :
            /\ workers[w].pc = "idle"
            /\ workers[w].rounds < MaxRounds
            /\ workers' = [workers EXCEPT ![w] =
                    [@ EXCEPT !.rounds = @ + 1,
                              !.st = Some(st),
                              !.pc = IF CacheIsIngested(cache.entries, st.match_id,
                                                        IsSome(st.metadata_salt))
                                     THEN "idle" ELSE "deliver"]]
            /\ UNCHANGED cache
       \/ \E ok \in BOOLEAN :
            /\ workers[w].pc = "deliver"
            /\ workers' = [workers EXCEPT ![w] =
                    [@ EXCEPT !.pc = IF ok THEN "mark" ELSE "idle",
                              !.sent = IF ok
                                       THEN @ \cup {<<workers[w].st[1].match_id, k>> :
                                                       k \in KindsOf(workers[w].st[1])}
                                       ELSE @]]
            /\ UNCHANGED cache
       \/ /\ workers[w].pc = "mark"
          /\ \E marked \in {CacheMarkIngested(cache.entries, workers[w].st[1])} :
                /\ cache' = [cache EXCEPT !.entries = marked]
                /\ workers' = [v \in DOMAIN workers |->
                        [workers[v] EXCEPT !.pc = IF v = w THEN "idle" ELSE @,
                                           !.sent = IF marked = EmptyMap THEN {} ELSE @]]
    /\ UNCHANGED <<buf, split, probe, now>>
    /\ UNCHANGED listenVars
    /\ UNCHANGED ingestVars

\* both workers idle; the cache is empty or holds as many entries as its ceiling
InitWorkers ==
    /\ lpc = "workers"
    /\ listen_result = "none"
    /\ ingested_metadata = {}
    /\ ingested_replay = {}
    /\ ingested_urls = {}
    /\ stream_buffers = EmptyMap
    /\ salts = None
    /\ now = 0
    /\ workers = [w \in {"capture", "watcher"} |->
                    [pc |-> "idle", st |-> None, sent |-> {}, rounds |-> 0]]
    /\ ipc = "idle"
    /\ attempt = 0
    /\ response = NoResponse
    /\ result = "none"
    /\ sleeps = 0
    /\ delivered = EmptyMap
    /\ seen = <<>>
    /\ n_payloads = 0
    /\ n_calls = 0
    /\ timeouts = 0
    /\ buf = NoBuf
    /\ split = NoSplit
    /\ \E n \in {0, CACHE_CEILING} :
        cache = [entries |-> [id \in EarlierIds(n) |-> <<TRUE, FALSE>>],
                 ops |-> 0, last |-> <<>>]
    /\ probe = NoProbe

NextWorkers == \E w \in {"capture", "watcher"} : WorkerStep(w)

SpecWorkers == InitWorkers /\ [][NextWorkers]_vars

(***************************************************************************)
(* The lock of the Ingestion Cache: mark_ingested and is_ingested, step by *)
(* step, called by two threads. workers[t].lock is the guard thread t      *)
(* holds ("none", "read", "write"), workers[t].io counts the file          *)
(* operations of append_to_log_file that t has performed.                  *)
(***************************************************************************)
\* mark_ingested taking the write lock before it appends to the log file
CacheThreadStep_LogUnderLock(t) ==
    /\ lpc = "lock"
    /\ \/ \E st \in {[match_id |-> <<7>>, cluster_id |-> <<4>>,
                       metadata_salt |-> Some(<<5>>), replay_salt |-> None],
                      [match_id |-> <<7>>, cluster_id |-> <<4>>,
                       metadata_salt |-> None, replay_salt |-> Some(<<6>>)],
                      [match_id |-> <<8>>, cluster_id |-> <<4>>,
                       metadata_salt |-> Some(<<5>>), replay_salt |-> None]},
               op \in {"mark_ingested", "is_ingested"} :
            /\ workers[t].pc = "idle"
            /\ workers[t].rounds < MaxRounds
            /\ workers' = [workers EXCEPT ![t] =
                    [@ EXCEPT !.rounds = @ + 1, !.st = Some(st), !.answer = None,
                              !.pc = IF op = "mark_ingested" THEN "write" ELSE "read"]]
            /\ UNCHANGED cache
       \/ /\ workers[t].pc = "write"
          /\ \A u \in DOMAIN workers : workers[u].lock = "none"
          /\ workers' = [workers EXCEPT ![t] =
                            [@ EXCEPT !.lock = "write", !.pc = "append_to_log_file"]]
          /\ UNCHANGED cache
       \/ /\ workers[t].pc = "append_to_log_file"
          /\ workers' = [workers EXCEPT ![t] = [@ EXCEPT !.io = @ + 1, !.pc = "update"]]
          /\ UNCHANGED cache
       \/ /\ workers[t].pc = "update"
          /\ cache' = [cache EXCEPT
                            !.entries = CacheMarkIngested(@, workers[t].st[1])]
          /\ workers' = [workers EXCEPT ![t] = [@ EXCEPT !.lock = "none", !.pc = "idle"]]
       \/ /\ workers[t].pc = "read"
          /\ \A u \in DOMAIN workers : workers[u].lock # "write"
          /\ workers' = [workers EXCEPT ![t] = [@ EXCEPT !.lock = "read", !.pc = "lookup"]]
          /\ UNCHANGED cache
       \/ /\ workers[t].pc = "lookup"
          /\ workers' = [workers EXCEPT ![t] =
                [@ EXCEPT !.lock = "none", !.pc = "idle",
                          !.answer = Some(CacheIsIngested(cache.entries,
                                            workers[t].st[1].match_id,
                                            IsSome(workers[t].st[1].metadata_salt)))]]
          /\ UNCHANGED cache
    /\ UNCHANGED <<buf, split, probe, now>>
    /\ UNCHANGED listenVars
    /\ UNCHANGED ingestVars

\* one step of thread t. From idle it enters mark_ingested or is_ingested.
\* mark_ingested: append_to_log_file, then cache.write(), then the update of
\* the map, and the guard is dropped at the return. is_ingested: cache.read(),
\* then the lookup, and the guard is dropped at the return
CacheThreadStep(t) ==
    /\ lpc = "lock"
    /\ \/ \E st \in {[match_id |-> <<7>>, cluster_id |-> <<4>>,
                       metadata_salt |-> Some(<<5>>), replay_salt |-> None],
                      [match_id |-> <<7>>, cluster_id |-> <<4>>,
                       metadata_salt |-> None, replay_salt |-> Some(<<6>>)],
                      [match_id |-> <<8>>, cluster_id |-> <<4>>,
                       metadata_salt |-> Some(<<5>>), replay_salt |-> None]},
               op \in {"mark_ingested", "is_ingested"} :
            /\ workers[t].pc = "idle"
            /\ workers[t].rounds < MaxRounds
            /\ workers' = [workers EXCEPT ![t] =
                    [@ EXCEPT !.rounds = @ + 1, !.st = Some(st), !.answer = None,
                              !.pc = IF op = "mark_ingested"
                                     THEN "append_to_log_file" ELSE "read"]]
            /\ UNCHANGED cache
       \/ /\ workers[t].pc = "append_to_log_file"
          /\ workers' = [workers EXCEPT ![t] = [@ EXCEPT !.io = @ + 1, !.pc = "write"]]
          /\ UNCHANGED cache
       \/ /\ workers[t].pc = "write"
          /\ \A u \in DOMAIN workers : workers[u].lock = "none"
          /\ workers' = [workers EXCEPT ![t] = [@ EXCEPT !.lock = "write", !.pc = "update"]]
          /\ UNCHANGED cache
       \/ /\ workers[t].pc = "update"
          /\ cache' = [cache EXCEPT
                            !.entries = CacheMarkIngested(@, workers[t].st[1])]
          /\ workers' = [workers EXCEPT ![t] = [@ EXCEPT !.lock = "none", !.pc = "idle"]]
       \/ /\ workers[t].pc = "read"
          /\ \A u \in DOMAIN workers : workers[u].lock # "write"
          /\ workers' = [workers EXCEPT ![t] = [@ EXCEPT !.lock = "read", !.pc = "lookup"]]
          /\ UNCHANGED cache
       \/ /\ workers[t].pc = "lookup"
          /\ workers' = [workers EXCEPT ![t] =
                [@ EXCEPT !.lock = "none", !.pc = "idle",
                          !.answer = Some(CacheIsIngested(cache.entries,
                                            workers[t].st[1].match_id,
                                            IsSome(workers[t].st[1].metadata_salt)))]]
          /\ UNCHANGED cache
    /\ UNCHANGED <<buf, split, probe, now>>
    /\ UNCHANGED listenVars
    /\ UNCHANGED ingestVars

\* two threads outside the cache's functions, the cache empty
InitLock ==
    /\ lpc = "lock"
    /\ listen_result = "none"
    /\ ingested_metadata = {}
    /\ ingested_replay = {}
    /\ ingested_urls = {}
    /\ stream_buffers = EmptyMap
    /\ salts = None
    /\ now = 0
    /\ workers = [t \in {"capture", "watcher"} |->
                    [pc |-> "idle", st |-> None, answer |-> None, lock |-> "none",
                     io |-> 0, rounds |-> 0]]
    /\ ipc = "idle"
    /\ attempt = 0
    /\ response = NoResponse
    /\ result = "none"
    /\ sleeps = 0
    /\ delivered = EmptyMap
    /\ seen = <<>>
    /\ n_payloads = 0
    /\ n_calls = 0
    /\ timeouts = 0
    /\ buf = NoBuf
    /\ split = NoSplit
    /\ cache = NoCache
    /\ probe = NoProbe

SpecLock == InitLock /\ [][\E t \in {"capture", "watcher"} : CacheThreadStep(t)]_vars

\* ---------------------------------------------------------------------------
\* statlocker.rs: the notification queue and its worker thread
\* ---------------------------------------------------------------------------

\* the bound given to mpsc::sync_channel in sender()
SYNC_CHANNEL_BOUND == 1000

\* a channel that takes every id, whatever it already holds
TrySend_Unbounded(queue, match_id) ==
    [queue |-> Append(queue, match_id), ok |-> TRUE]

\* SyncSender::try_send on the channel of sender(): the id is queued when the
\* channel holds fewer than its bound, otherwise the call returns an error at
\* once and the channel is as it was
TrySend(queue, match_id) ==
    IF Len(queue) < SYNC_CHANNEL_BOUND
    THEN [queue |-> Append(queue, match_id), ok |-> TRUE]
    ELSE [queue |-> queue, ok |-> FALSE]

\* One step of thread t on the statlocker module.  A caller is in notify():
\* it loads STATLOCKER_ENABLED, obtains the sender (SENDER.get_or_init, whose
\* closure creates the channel and spawns the worker, and runs once however
\* many callers arrive), and hands the id to try_send.  The worker thread
\* takes the next id from the channel and later finishes its request.
\* disable() stores false in the flag.
StatlockerStep(t) ==
    /\ lpc = "statlocker"
    /\ \/ \E match_id \in {7, 8} :
            /\ t # "statlocker"
            /\ workers[t].pc = "idle"
            /\ workers[t].rounds < MaxRounds
            /\ workers' = [workers EXCEPT ![t] =
                  [@ EXCEPT !.rounds = @ + 1, !.match_id = match_id,
                            !.entered_enabled = probe.STATLOCKER_ENABLED,
                            !.outcome = IF probe.STATLOCKER_ENABLED
                                        THEN "none" ELSE "returned",
                            !.pc = IF probe.STATLOCKER_ENABLED
                                   THEN "sender" ELSE "idle"]]
            /\ UNCHANGED probe
       \/ /\ t # "statlocker"
          /\ workers[t].pc = "sender"
          /\ probe' = IF IsSome(probe.SENDER) THEN probe
                      ELSE [probe EXCEPT !.SENDER = Some("tx"),
                                         !.spawned = @ + 1]
          /\ workers' = [workers EXCEPT ![t] = [@ EXCEPT !.pc = "try_send"]]
       \/ /\ t # "statlocker"
          /\ workers[t].pc = "try_send"
          /\ \E sent \in {TrySend(probe.queue, workers[t].match_id)} :
                /\ probe' = [probe EXCEPT !.queue = sent.queue]
                /\ workers' = [workers EXCEPT ![t] =
                      [@ EXCEPT !.pc = "idle",
                                !.outcome = IF sent.ok THEN "queued" ELSE "dropped"]]
       \/ /\ t # "statlocker"
          /\ probe.STATLOCKER_ENABLED
          /\ workers[t].pc = "idle"
          /\ probe' = [probe EXCEPT !.STATLOCKER_ENABLED = FALSE]
          /\ UNCHANGED workers
       \/ /\ t = "statlocker"
          /\ probe.spawned > 0
          /\ workers[t].pc = "idle"
          /\ workers[t].rounds < MaxRounds
          /\ probe.queue # <<>>
          /\ probe' = [probe EXCEPT !.queue = Tail(@)]
          /\ workers' = [workers EXCEPT ![t] =
                [@ EXCEPT !.pc = "call", !.rounds = @ + 1,
                          !.match_id = Head(probe.queue)]]
       \/ /\ t = "statlocker"
          /\ workers[t].pc = "call"
          /\ workers' = [workers EXCEPT ![t] = [@ EXCEPT !.pc = "idle"]]
          /\ UNCHANGED probe
    /\ UNCHANGED <<buf, split, cache, now>>
    /\ UNCHANGED listenVars
    /\ UNCHANGED ingestVars

\* no thread inside the module; either nothing has been sent yet (SENDER
\* unset, no worker), or the worker is busy with a request and the channel
\* holds one id fewer than its bound
InitStatlocker ==
    /\ lpc = "statlocker"
    /\ listen_result = "none"
    /\ ingested_metadata = {}
    /\ ingested_replay = {}
    /\ ingested_urls = {}
    /\ stream_buffers = EmptyMap
    /\ salts = None
    /\ now = 0
    /\ \E started \in BOOLEAN :
          /\ probe = [fn |-> "notify", STATLOCKER_ENABLED |-> TRUE,
                      SENDER |-> IF started THEN Some("tx") ELSE None,
                      spawned |-> IF started THEN 1 ELSE 0,
                      queue |-> IF started
                                THEN [i \in 1..(SYNC_CHANNEL_BOUND - 1) |-> 7]
                                ELSE <<>>]
          /\ workers = [t \in {"capture", "watcher", "statlocker"} |->
                          [pc |-> IF started /\ t = "statlocker" THEN "call" ELSE "idle",
                           match_id |-> 7, entered_enabled |-> TRUE,
                           outcome |-> "none", rounds |-> 0]]
    /\ ipc = "idle"
    /\ attempt = 0
    /\ response = NoResponse
    /\ result = "none"
    /\ sleeps = 0
    /\ delivered = EmptyMap
    /\ seen = <<>>
    /\ n_payloads = 0
    /\ n_calls = 0
    /\ timeouts = 0
    /\ buf = NoBuf
    /\ split = NoSplit
    /\ cache = NoCache

SpecStatlocker ==
    InitStatlocker
        /\ [][\E t \in {"capture", "watcher", "statlocker"} : StatlockerStep(t)]_vars

(***************************************************************************)
(* The pure functions, one call each: Salts::from_url, extract_salts,      *)
(* TcpStreamId::from_packet and find_http_in_packet on inputs assembled    *)
(* from parts.  A part carries `ok`: whether it fits the URL template.     *)
(***************************************************************************)
\* URLs for from_url, part by part: the template's text and texts that fail
\* it at each step, then a query string
UrlParts ==
    [scheme : { [text |-> B("http://replay"), ok |-> TRUE],
                [text |-> B("https://replay"), ok |-> FALSE] },
     cluster : { [text |-> B("404"), ok |-> TRUE],
                 [text |-> B("x"), ok |-> FALSE],
                 [text |-> B("4294967296"), ok |-> FALSE] },
     domain : { [text |-> B(".valve.net/"), ok |-> TRUE],
                [text |-> B(".valve.com/"), ok |-> FALSE] },
     dir : { [text |-> B("1422450/"), ok |-> TRUE],
             [text |-> B(""), ok |-> FALSE] },
     match : { [text |-> B("37959196"), ok |-> TRUE],
               [text |-> B("a"), ok |-> FALSE],
               [text |-> B("18446744073709551616"), ok |-> FALSE] },
     sep : { [text |-> B("_"), ok |-> TRUE],
             [text |-> B("-"), ok |-> FALSE] },
     salt : { [text |-> B("937530290"), ok |-> TRUE],
              [text |-> B("x"), ok |-> FALSE],
              [text |-> B("4294967296"), ok |-> FALSE],
              [text |-> B(""), ok |-> FALSE] },
     suffix : { [text |-> B(".meta.bz2"), ok |-> TRUE, kind |-> "metadata"],
                [text |-> B(".dem.bz2"), ok |-> TRUE, kind |-> "replay"],
                [text |-> B(".bz2"), ok |-> FALSE, kind |-> "none"] },
     query : { B("v=2"), B("a=/1_2.dem.bz2"), B("x?y") }]

\* the URL of the parts, without its query string
UrlOf(p) ==
    p.scheme.text \o p.cluster.text \o p.domain.text \o p.dir.text
        \o p.match.text \o p.sep.text \o p.salt.text \o p.suffix.text

\* every part fits the template
UrlFits(p) ==
    /\ p.scheme.ok /\ p.cluster.ok /\ p.domain.ok /\ p.dir.ok
    /\ p.match.ok /\ p.sep.ok /\ p.salt.ok /\ p.suffix.ok

\* requests for extract_salts: a target, a Host header, bytes before "GET ",
\* and a query string
RequestParts ==
    [target : { B("/1422450/37959196_937530290.meta.bz2"),
                B("/1422450/42476710_428480166.dem.bz2"),
                B("http://replay183.valve.net/1422450/42476710_428480166.dem.bz2"),
                B("/index.html") },
     host : { B("replay404.valve.net"), B("example.com") },
     prefix : { B(""), B("randomdata") },
     query : { B("v=2"), B("a=/1_2.dem.bz2"), B("x?y") }]

\* the bytes of the request of the parts, with the given request target
RequestOf(p, target) ==
    p.prefix \o Lit_GET \o target \o B(" HTTP/1.1\r\nHost: ") \o p.host \o Lit_CRLFCRLF

\* to_json writing 0 for a salt that is not populated
ToJson_ZeroForNone(st) ==
    LET Display(d) == [i \in 1..Len(d) |-> 48 + d[i]]
    IN  Let([metadata_salt \in {IF IsSome(st.metadata_salt)
                                THEN Display(st.metadata_salt[1]) ELSE B("0")} |->
        Let([replay_salt \in {IF IsSome(st.replay_salt)
                              THEN Display(st.replay_salt[1]) ELSE B("0")} |->
            B("[{\"match_id\":") \o Display(st.match_id)
                \o B(",\"cluster_id\":") \o Display(st.cluster_id)
                \o B(",\"metadata_salt\":") \o metadata_salt
                \o B(",\"replay_salt\":") \o replay_salt \o B("}]")])])

\* Salts::to_json: the format! of the four fields, an integer by its Display
\* (the decimal digits), a salt that is None by the text null
ToJson(st) ==
    LET Display(d) == [i \in 1..Len(d) |-> 48 + d[i]]
    IN  Let([metadata_salt \in {IF IsSome(st.metadata_salt)
                                THEN Display(st.metadata_salt[1]) ELSE B("null")} |->
        Let([replay_salt \in {IF IsSome(st.replay_salt)
                              THEN Display(st.replay_salt[1]) ELSE B("null")} |->
            B("[{\"match_id\":") \o Display(st.match_id)
                \o B(",\"cluster_id\":") \o Display(st.cluster_id)
                \o B(",\"metadata_salt\":") \o metadata_salt
                \o B(",\"replay_salt\":") \o replay_salt \o B("}]")])])

\* the body that ingest sends for a record
ProbeToJson ==
    /\ probe.fn = "to_json"
    /\ ~probe.done
    /\ probe' = [probe EXCEPT !.output = ToJson(probe.input), !.done = TRUE]
    /\ UNCHANGED <<buf, split, cache, now, workers>>
    /\ UNCHANGED listenVars
    /\ UNCHANGED ingestVars

\* Salts::from_url on a URL and on the same URL with a query string
ProbeFromUrl ==
    /\ probe.fn = "from_url"
    /\ ~probe.done
    /\ \E u \in {UrlOf(probe.input)} :
        probe' = [probe EXCEPT
                    !.output = [plain |-> FromUrl(u),
                                with_query |-> FromUrl(u \o Lit_QUERY \o probe.input.query)],
                    !.done = TRUE]
    /\ UNCHANGED <<buf, split, cache, now, workers>>
    /\ UNCHANGED listenVars
    /\ UNCHANGED ingestVars

\* extract_salts on a request and on the same request with a query string
ProbeExtractSalts ==
    /\ probe.fn = "extract_salts"
    /\ ~probe.done
    /\ probe' = [probe EXCEPT
                    !.output = [plain |-> ExtractSalts(RequestOf(probe.input,
                                                                 probe.input.target)),
                                with_query |-> ExtractSalts(RequestOf(probe.input,
                                    probe.input.target \o Lit_QUERY \o probe.input.query))],
                    !.done = TRUE]
    /\ UNCHANGED <<buf, split, cache, now, workers>>
    /\ UNCHANGED listenVars
    /\ UNCHANGED ingestVars

\* 192.168.1.100 and 8.0.0.1; 2001:db8::1 and 2001:db8:800::6
SourceAddress(family, second) ==
    IF family = 4
    THEN (IF second THEN <<8, 0, 0, 1>> ELSE <<192, 168, 1, 100>>)
    ELSE (IF second THEN <<32, 1, 13, 184, 8, 0, 0, 0, 0, 0, 0, 0, 0, 0, 0, 6>>
          ELSE <<32, 1, 13, 184, 0, 0, 0, 0, 0, 0, 0, 0, 0, 0, 0, 1>>)

\* 10.0.0.1 and 2001:db8::2
DestinationAddress(family) ==
    IF family = 4 THEN <<10, 0, 0, 1>>
    ELSE <<32, 1, 13, 184, 0, 0, 0, 0, 0, 0, 0, 0, 0, 0, 0, 2>>

\* frames for from_packet: framing, address family, and what may be wrong
\* with the frame (version nibble, transport protocol, missing bytes: all
\* captured, ten bytes, the headers below TCP only, or those and the ports)
FrameParts ==
    [framing : {"eth", "raw"}, family : {4, 6}, version_ok : BOOLEAN,
     second_source : BOOLEAN, dst_port : {80, 262}, ihl : {5, 6}, protocol : {6, 17},
     macs : { [dst |-> <<0, 17, 34, 51, 68, 85>>,
               src |-> <<170, 187, 204, 221, 238, 255>>],
              [dst |-> <<64, 17, 34, 51, 68, 85>>,
               src |-> <<170, 187, 204, 6, 238, 255>>] },
     cut : {"all", "ten", "no_tcp", "ports"}]

\* the captured bytes of the parts: link-layer header (none in raw framing),
\* network-layer header, a 20-byte transport header from port 12345 and 18
\* bytes of data
FrameOf(p) ==
    LET link == IF p.framing = "eth"
                THEN p.macs.dst \o p.macs.src
                        \o (IF p.family = 4 THEN <<8, 0>> ELSE <<134, 221>>)
                ELSE <<>>
        network ==
            IF p.family = 4
            THEN <<(IF p.version_ok THEN 64 ELSE 80) + p.ihl, 0, 0, 60, 0, 1, 64, 0,
                   64, p.protocol, 0, 0>>
                    \o SourceAddress(4, p.second_source) \o DestinationAddress(4)
                    \o [i \in 1..((p.ihl - 5) * 4) |-> 1]
            ELSE <<(IF p.version_ok THEN 96 ELSE 80), 0, 0, 0, 0, 38, p.protocol, 64>>
                    \o SourceAddress(6, p.second_source) \o DestinationAddress(6)
        transport ==
            <<48, 57, p.dst_port \div 256, p.dst_port % 256, 0, 0, 0, 1, 0, 0, 0, 0,
              80, 24, 114, 16, 0, 0, 0, 0>> \o B("GET / HTTP/1.1\r\n\r\n")
    IN  IF p.cut = "all" THEN link \o network \o transport
        ELSE IF p.cut = "ten" THEN Slice(link \o network, 0, 10)
        ELSE IF p.cut = "no_tcp" THEN link \o network
        ELSE link \o network \o Slice(transport, 0, 4)

\* the connection key the parts encode
KeyOf(p) ==
    [src_ip |-> <<IF p.family = 4 THEN "V4" ELSE "V6",
                  SourceAddress(p.family, p.second_source)>>,
     dst_ip |-> <<IF p.family = 4 THEN "V4" ELSE "V6", DestinationAddress(p.family)>>,
     src_port |-> 12345,
     dst_port |-> p.dst_port,
     protocol |-> 6]

\* inputs of find_http_in_packet: bytes before "GET ", a request head, then
\* the end of the header block or not, then further bytes
FindParts ==
    [prefix_len : {0, 10, 4096, 5000}, has_get : BOOLEAN, terminated : BOOLEAN,
     tail_len : {0, 100, 2000}]

RequestHead == B("GET /a/7_5.meta.bz2 HTTP/1.1\r\nHost: replay4.valve.net")

\* the bytes of the parts; without "GET " the head loses its method
FindInputOf(p) ==
    [i \in 1..p.prefix_len |-> 97]
        \o (IF p.has_get THEN RequestHead ELSE SliceFrom(RequestHead, 4))
        \o (IF p.terminated THEN Lit_CRLFCRLF ELSE <<>>)
        \o [i \in 1..p.tail_len |-> 98]

\* requests for parse_http_request and unfold_http_headers: a request target;
\* the name of the Host header and where its line stands (before the blank
\* line that ends the headers, after it, or nowhere); how its value
\* "replay4" is continued by ".valve.net" on a folded line ("none": not at
\* all; "leading": not at all, and a folded line follows the request line);
\* the line ending; where the bytes seen so far stop
HttpParts ==
    [target : { [text |-> B("/path"), absolute |-> FALSE],
                [text |-> B("/"), absolute |-> FALSE],
                [text |-> B("/a/7_5.meta.bz2"), absolute |-> FALSE],
                [text |-> B("http://replay183.valve.net/a/7_6.dem.bz2"), absolute |-> TRUE],
                [text |-> B("https://e.com/y"), absolute |-> TRUE] },
     name : { B("Host"), B("HOST"), B("hOsT"), B("X-Host") },
     place : {"before", "after_blank", "absent"},
     fold : {"none", "space", "tab", "spaces", "leading"},
     eol : { Lit_CRLF, Lit_LF },
     cut : {"full", "request_line", "host_name"}]

\* the text of the request of the parts
HttpOf(p) ==
    LET request_line == Lit_GET \o p.target.text \o B(" HTTP/1.1") \o p.eol
        lead == IF p.fold = "leading" THEN B(" X-Lead: 1") \o p.eol ELSE <<>>
        accept == B("Accept: */*") \o p.eol
        folded == IF p.fold = "space" THEN p.eol \o B(" .valve.net")
                  ELSE IF p.fold = "tab" THEN p.eol \o B("\t.valve.net")
                  ELSE IF p.fold = "spaces" THEN p.eol \o B("   .valve.net")
                  ELSE IF p.fold = "one_line" THEN B(".valve.net")
                  ELSE <<>>
        host_line == p.name \o B(": replay4") \o folded \o p.eol
    IN  IF p.cut = "request_line" THEN request_line
        ELSE IF p.cut = "host_name" THEN request_line \o lead \o accept \o B("Ho")
        ELSE request_line \o lead \o accept
                \o (IF p.place = "before" THEN host_line ELSE <<>>)
                \o p.eol
                \o (IF p.place = "after_blank" THEN host_line ELSE <<>>)

\* unfold_http_headers and parse_http_request on a request text, and the loop
\* body of listen on a payload with that text arriving on a new connection
ProbeParse ==
    /\ probe.fn = "parse_http_request"
    /\ ~probe.done
    /\ \E text \in {HttpOf(probe.input)} :
       \E r \in {Reassemble(EmptyMap, 1, text, 0)} :
        probe' = [probe EXCEPT
                    !.output = [unfolded |-> UnfoldHttpHeaders(text),
                                url |-> ParseHttpRequest(text),
                                salts |-> r.salts,
                                kept |-> r.bufs[1].data],
                    !.done = TRUE]
    /\ UNCHANGED <<buf, split, cache, now, workers>>
    /\ UNCHANGED listenVars
    /\ UNCHANGED ingestVars

\* TcpStreamId::from_packet on a frame
ProbeFromPacket ==
    /\ probe.fn = "from_packet"
    /\ ~probe.done
    /\ probe' = [probe EXCEPT !.output = FromPacket(FrameOf(probe.input)),
                              !.done = TRUE]
    /\ UNCHANGED <<buf, split, cache, now, workers>>
    /\ UNCHANGED listenVars
    /\ UNCHANGED ingestVars

\* find_http_in_packet on a byte blob
ProbeFindHttp ==
    /\ probe.fn = "find_http_in_packet"
    /\ ~probe.done
    /\ probe' = [probe EXCEPT !.output = FindHttpInPacket(FindInputOf(probe.input)),
                              !.done = TRUE]
    /\ UNCHANGED <<buf, split, cache, now, workers>>
    /\ UNCHANGED listenVars
    /\ UNCHANGED ingestVars

\* ::ffff:a.b.c.d, the IPv6 address that stands for the IPv4 address a.b.c.d
Ipv4Mapped(octets) == <<0, 0, 0, 0, 0, 0, 0, 0, 0, 0, 255, 255>> \o octets

\* connection keys as listen may hold them: each address IPv4, the
\* IPv4-mapped IPv6 form of the same address, or another IPv6 address
KeyParts ==
    [src_ip : {<<"V4", SourceAddress(4, FALSE)>>,
               <<"V6", Ipv4Mapped(SourceAddress(4, FALSE))>>,
               <<"V6", SourceAddress(6, FALSE)>>},
     dst_ip : {<<"V4", DestinationAddress(4)>>,
               <<"V6", Ipv4Mapped(DestinationAddress(4))>>,
               <<"V6", DestinationAddress(6)>>},
     src_port : {12345}, dst_port : {80, 262}, protocol : {6, 17}]

\* an equality that takes an IPv4-mapped IPv6 address for its IPv4 address
TcpStreamIdEq_Canonical(a, b) ==
    /\ \A pair \in {<<a.src_ip, b.src_ip>>, <<a.dst_ip, b.dst_ip>>} :
          \E x \in {IF pair[1][1] = "V6" /\ Slice(pair[1][2], 0, 12) = Ipv4Mapped(<<>>)
                    THEN SliceFrom(pair[1][2], 12) ELSE pair[1][2]},
             y \in {IF pair[2][1] = "V6" /\ Slice(pair[2][2], 0, 12) = Ipv4Mapped(<<>>)
                    THEN SliceFrom(pair[2][2], 12) ELSE pair[2][2]} : x = y
    /\ a.src_port = b.src_port
    /\ a.dst_port = b.dst_port
    /\ a.protocol = b.protocol

\* #[derive(PartialEq, Eq)] on TcpStreamId: the fields compared in turn; two
\* IpAddr values are equal when they are the same variant with the same octets
TcpStreamIdEq(a, b) ==
    /\ a.src_ip[1] = b.src_ip[1] /\ a.src_ip[2] = b.src_ip[2]
    /\ a.dst_ip[1] = b.dst_ip[1] /\ a.dst_ip[2] = b.dst_ip[2]
    /\ a.src_port = b.src_port
    /\ a.dst_port = b.dst_port
    /\ a.protocol = b.protocol

\* impl Hash for TcpStreamId: the bytes handed to the Hasher, in order.  Each
\* address gives its tag byte (0 for V4, 1 for V6) and its octets as an array
\* (the length, then the bytes); then the two ports (two bytes each, low byte
\* first) and the protocol byte.  The hash value is a function of these bytes.
TcpStreamIdHash(key) ==
    <<IF key.src_ip[1] = "V4" THEN 0 ELSE 1, Len(key.src_ip[2])>> \o key.src_ip[2]
        \o <<IF key.dst_ip[1] = "V4" THEN 0 ELSE 1, Len(key.dst_ip[2])>> \o key.dst_ip[2]
        \o <<key.src_port % 256, key.src_port \div 256,
             key.dst_port % 256, key.dst_port \div 256, key.protocol>>

\* two keys compared and hashed
ProbeKeyPair ==
    /\ probe.fn = "key_pair"
    /\ ~probe.done
    /\ probe' = [probe EXCEPT
                    !.output = [eq |-> TcpStreamIdEq(probe.input.a, probe.input.b),
                                hash_a |-> TcpStreamIdHash(probe.input.a),
                                hash_b |-> TcpStreamIdHash(probe.input.b)],
                    !.done = TRUE]
    /\ UNCHANGED <<buf, split, cache, now, workers>>
    /\ UNCHANGED listenVars
    /\ UNCHANGED ingestVars

(***************************************************************************)
(* steam_user.rs: the account id of the current Steam user                 *)
(***************************************************************************)
STEAM_ID_64_IDENT == <<7, 6, 5, 6, 1, 1, 9, 7, 9, 6, 0, 2, 6, 5, 7, 2, 8>>

\* a - b on digit sequences of one length, least significant digit last;
\* borrow is what the digits to the right took
RECURSIVE SubDigits(_, _, _)
SubDigits(a, b, borrow) ==
    IF a = <<>> THEN <<>>
    ELSE Let([d \in {a[Len(a)] - b[Len(b)] - borrow} |->
             Append(SubDigits(SubSeq(a, 1, Len(a) - 1), SubSeq(b, 1, Len(b) - 1),
                              IF d < 0 THEN 1 ELSE 0),
                    IF d < 0 THEN d + 10 ELSE d)])

\* a - b for canonical digit sequences with a >= b
DecSub(a, b) ==
    Canon(SubDigits(a, [i \in 1..(Len(a) - Len(b)) |-> 0] \o b, 0))

\* current_steam_id3, the closure it runs once: id64 is what
\* get_current_steam_id64 returned.  `id64 - STEAM_ID_64_IDENT` is a u64
\* subtraction: below the base it panics in a build with overflow checks and
\* wraps modulo 2^64 in a build without them; u32::try_from(..).ok() keeps a
\* difference that fits 32 bits.
CurrentSteamId3(id64, overflow_checks) ==
    IF id64 = None THEN [value |-> None, overflow |-> FALSE, panic |-> FALSE]
    ELSE IF DecLt(id64[1], STEAM_ID_64_IDENT)
    THEN IF overflow_checks
         THEN [value |-> None, overflow |-> TRUE, panic |-> TRUE]
         ELSE Let([wrapped \in {DecSub(U64_MAX,
                                       DecSub(DecSub(STEAM_ID_64_IDENT, id64[1]),
                                              <<1>>))} |->
                  [value |-> IF DecGt(wrapped, U32_MAX) THEN None ELSE Some(wrapped),
                   overflow |-> TRUE, panic |-> FALSE]])
    ELSE Let([d \in {DecSub(id64[1], STEAM_ID_64_IDENT)} |->
             [value |-> IF DecGt(d, U32_MAX) THEN None ELSE Some(d),
              overflow |-> FALSE, panic |-> FALSE]])

\* current_steam_id3 on the id read from loginusers.vdf, in either build
ProbeSteamId ==
    /\ probe.fn = "current_steam_id3"
    /\ ~probe.done
    /\ \E overflow_checks \in BOOLEAN :
          probe' = [probe EXCEPT
                      !.output = CurrentSteamId3(probe.input, overflow_checks),
                      !.done = TRUE]
    /\ UNCHANGED <<buf, split, cache, now, workers>>
    /\ UNCHANGED listenVars
    /\ UNCHANGED ingestVars

InitProbe ==
    /\ lpc = "probe"
    /\ listen_result = "none"
    /\ ingested_metadata = {}
    /\ ingested_replay = {}
    /\ ingested_urls = {}
    /\ stream_buffers = EmptyMap
    /\ salts = None
    /\ now = 0
    /\ workers = <<>>
    /\ ipc = "idle"
    /\ attempt = 0
    /\ response = NoResponse
    /\ result = "none"
    /\ sleeps = 0
    /\ delivered = EmptyMap
    /\ seen = <<>>
    /\ n_payloads = 0
    /\ n_calls = 0
    /\ timeouts = 0
    /\ buf = NoBuf
    /\ split = NoSplit
    /\ cache = NoCache
    /\ \/ \E p \in UrlParts : probe = [NoProbe EXCEPT !.fn = "from_url", !.input = p]
       \/ \E p \in RequestParts :
            probe = [NoProbe EXCEPT !.fn = "extract_salts", !.input = p]
       \/ \E p \in FrameParts : probe = [NoProbe EXCEPT !.fn = "from_packet", !.input = p]
       \/ \E p \in FindParts :
            probe = [NoProbe EXCEPT !.fn = "find_http_in_packet", !.input = p]
       \/ \E p \in HttpParts :
            probe = [NoProbe EXCEPT !.fn = "parse_http_request", !.input = p]
       \/ \E st \in [match_id : {<<0>>, <<3, 7, 9, 5, 9, 1, 9, 6>>, U64_MAX},
                     cluster_id : {<<0>>, <<4, 0, 4>>, U32_MAX},
                     metadata_salt : {None, Some(<<0>>), Some(<<9, 3, 7, 5, 3, 0, 2, 9, 0>>)},
                     replay_salt : {None, Some(<<0>>), Some(U32_MAX)}] :
            probe = [NoProbe EXCEPT !.fn = "to_json", !.input = st]
       \/ \E a \in KeyParts, b \in KeyParts :
            probe = [NoProbe EXCEPT !.fn = "key_pair", !.input = [a |-> a, b |-> b]]
       \/ \E id64 \in {None, Some(<<0>>), Some(<<1, 2, 3, 4, 5>>),
                       Some(<<7, 6, 5, 6, 1, 1, 9, 7, 9, 6, 0, 2, 6, 5, 7, 2, 7>>),
                       Some(STEAM_ID_64_IDENT),
                       Some(<<7, 6, 5, 6, 1, 1, 9, 8, 0, 0, 0, 0, 0, 0, 0, 0, 0>>),
                       Some(<<7, 6, 5, 6, 1, 2, 0, 2, 2, 5, 5, 2, 3, 3, 0, 2, 3>>),
                       Some(<<7, 6, 5, 6, 1, 2, 0, 2, 2, 5, 5, 2, 3, 3, 0, 2, 4>>),
                       Some(U64_MAX)} :
            probe = [NoProbe EXCEPT !.fn = "current_steam_id3", !.input = id64]

NextProbe ==
    \/ ProbeFromUrl
    \/ ProbeExtractSalts
    \/ ProbeFromPacket
    \/ ProbeFindHttp
    \/ ProbeParse
    \/ ProbeToJson
    \/ ProbeKeyPair
    \/ ProbeSteamId

SpecProbe == InitProbe /\ [][NextProbe]_vars

(***************************************************************************)
(* Properties                                                              *)
(***************************************************************************)

\* C1: over the whole process lifetime, restarts of listen included, no
\* (match_id, salt kind) pair is successfully delivered to the collector more
\* than once between two size-triggered clearings of the dedup set.
C1_DeliveredAtMostOnce ==
    \A p \in DOMAIN delivered : delivered[p] <= 1

\* a byte blob from which the Request Extractor recovers a complete request:
\* "GET ", the terminating header block after it, and a URL
HoldsCompleteRequest(data) ==
    LET pos == Find(data, Lit_GET)
    IN  /\ IsSome(pos)
        /\ Contains(SliceFrom(data, pos[1]), Lit_CRLFCRLF)
        /\ IsSome(RecoveredUrl(data))

\* C2: when listen takes the next payload, no stream buffer still holds a
\* complete request that the Request Extractor recovered from it: the buffer
\* was cleared, whether or not the URL matched the salt template.
C2_ClearedAfterExtraction ==
    lpc = "loop" =>
        \A id \in DOMAIN stream_buffers : ~HoldsCompleteRequest(stream_buffers[id].data)

\* C3: a request cut anywhere in two fragments and appended by two calls to an
\* empty Stream Buffer yields the same Recovered URL and the same salts as the
\* Request Extractor run once on the uncut bytes.
C3_SplitEquivalence ==
    split.stage = "done" =>
        /\ split.url = RecoveredUrl(split.req)
        /\ split.salts = ExtractSalts(split.req)

C3_Witness ==
    /\ split.stage = "done"
    /\ split.cut > 0
    /\ split.cut < Len(split.req)
    /\ split.buffer.data = split.req
    /\ IsSome(split.salts)

\* C4: a GET request carried by two consecutive frames of one connection makes
\* listen hand the same identifiers to delivery as the request in one frame.
C4_TwoFrameReassembly ==
    (lpc \in {"loop", "ingest"} /\ seen = <<F.part1, F.part2>>) =>
        /\ salts = ExtractSalts(ReqMetaPart1 \o ReqMetaPart2)
        /\ lpc = "ingest"

\* C5: whatever new, append and clear operations were applied, with fragments
\* of any size, the Stream Buffer holds at most MAX_STREAM_BUFFER_SIZE bytes.
C5_BufferWithinCap ==
    Len(buf.b.data) <= MAX_STREAM_BUFFER_SIZE

C5_Witness ==
    /\ buf.last = <<"append", MAX_STREAM_BUFFER_SIZE + 1000>>
    /\ Len(buf.b.data) > 0
    /\ buf.ops >= 2

\* C6: ingest terminates: it never makes more than MAX_RETRIES attempts and it
\* eventually returns, with success or with an error.
C6_IngestTerminates ==
    /\ [](attempt <= MAX_RETRIES)
    /\ [](ipc = "returned" =>
            result \in {"Ok", "MatchIdTooLarge", "FailedToIngest", "Ureq"})
    /\ <>(ipc = "returned")

C6_Witness ==
    /\ ipc = "returned"
    /\ attempt = MAX_RETRIES
    /\ sleeps = MAX_RETRIES - 1
    /\ result \in {"FailedToIngest", "Ureq"}

\* C7: a status 400 on any attempt is terminal: ingest has returned the error
\* that carries it, without a backoff sleep for that attempt, even with
\* attempts left.
C7_Status400Terminal ==
    (response.kind = "StatusCode" /\ response.status = 400) =>
        /\ ipc = "returned"
        /\ result = "Ureq"
        /\ sleeps = attempt - 1

C7_Witness ==
    /\ response.kind = "StatusCode"
    /\ response.status = 400
    /\ ipc = "returned"
    /\ attempt >= 2
    /\ attempt < MAX_RETRIES

\* a failed send: anything but a 2xx response
FailedSend(r) == ~(r.kind = "Ok" /\ IsSuccess(r.status))
Is400(r) == r.kind = "StatusCode" /\ r.status = 400

\* C8: a failed attempt that is neither a 400 nor the last one is followed by
\* exactly one backoff sleep and then another attempt; an attempt after the
\* first is made only after a failure and its sleep; a 2xx returns success
\* at once.
C8_RetryDiscipline ==
    [][ /\ (ipc = "send" /\ attempt' = attempt + 1) =>
              /\ sleeps = attempt
              /\ (~FailedSend(response')) => (ipc' = "returned" /\ result' = "Ok")
              /\ (FailedSend(response') /\ ~Is400(response') /\ attempt' < MAX_RETRIES)
                    => (ipc' = "sleep" /\ sleeps' = sleeps)
        /\ ipc = "sleep" =>
              /\ FailedSend(response)
              /\ ipc' = "send"
              /\ sleeps' = sleeps + 1
              /\ attempt' = attempt
        /\ attempt' # attempt => (ipc = "send" \/ attempt' = 0)
      ]_vars

C8_Witness ==
    /\ ipc = "returned"
    /\ result = "Ok"
    /\ attempt = 3
    /\ sleeps = 2

\* C9: a record whose match_id exceeds 100,000,000 is rejected by ingest with
\* no delivery attempt at all and is never marked as ingested; a match_id of
\* exactly 100,000,000 is not rejected.
C9_CeilingRejectedBeforeNetwork ==
    /\ (lpc = "ingest" /\ DecGt(Unwrap(salts).match_id, MATCH_ID_CEILING)) =>
            (ipc = "returned" /\ result = "MatchIdTooLarge" /\ attempt = 0)
    /\ \A id \in ingested_metadata \cup ingested_replay : ~DecGt(id, MATCH_ID_CEILING)
    /\ \A p \in DOMAIN delivered : ~DecGt(p[1], MATCH_ID_CEILING)
    /\ (lpc = "ingest" /\ Unwrap(salts).match_id = MATCH_ID_CEILING) =>
            result # "MatchIdTooLarge"

C9_Witness ==
    /\ lpc = "ingest"
    /\ Unwrap(salts).match_id = <<1, 0, 0, 0, 0, 0, 0, 0, 1>>
    /\ result = "MatchIdTooLarge"

\* C10: the ingested sets change only when a delivery succeeded (or a new call
\* of listen starts with fresh sets); when ingest returned an error they are
\* left as they were, and the record is still eligible for delivery.
C10_DedupChangedOnlyOnSuccess ==
    [][ /\ (ingested_metadata' # ingested_metadata \/ ingested_replay' # ingested_replay) =>
              \/ (lpc = "ingest" /\ ipc = "returned" /\ result = "Ok")
              \/ (lpc \in {"init", "returned"}
                    /\ ingested_metadata' = {} /\ ingested_replay' = {})
        /\ (lpc = "ingest" /\ ipc = "returned" /\ result # "Ok" /\ lpc' = "loop") =>
              /\ ingested_metadata' = ingested_metadata
              /\ ingested_replay' = ingested_replay
              /\ IsNew(Unwrap(salts), ingested_metadata', ingested_replay')
      ]_vars

C10_Witness ==
    /\ lpc = "loop"
    /\ n_payloads = 2
    /\ seen = <<F.meta, F.meta>>
    /\ IsSome(salts)
    /\ IsNew(Unwrap(salts), ingested_metadata, ingested_replay)
    /\ delivered = EmptyMap

\* C11: right after a successful delivery is marked (mark_ingested on the
\* Ingestion Cache, or the insert into the listener's sets), the status of the
\* record's match id is "ingested" for each salt kind the record carries,
\* whatever the cache held before.
C11_MarkedIsIngested ==
    cache.last # <<>> =>
        LET target == cache.last[1]
            st == cache.last[2]
        IN  /\ (target = "cache" /\ IsSome(st.metadata_salt)) =>
                    CacheIsIngested(cache.entries, st.match_id, TRUE)
            /\ (target = "cache" /\ IsSome(st.replay_salt)) =>
                    CacheIsIngested(cache.entries, st.match_id, FALSE)
            /\ (target = "sets" /\ IsSome(st.metadata_salt)) =>
                    st.match_id \in ingested_metadata
            /\ (target = "sets" /\ IsSome(st.replay_salt)) =>
                    st.match_id \in ingested_replay

\* C12: marking a record with only a metadata salt makes the metadata flag of
\* its match id true and leaves the replay flag of that match id as it was,
\* and the other way round for a record with only a replay salt; a flag that
\* is set stays set across a later mark_ingested unless the whole cache was
\* cleared.
C12_FlagsIndependentMonotone ==
    [][ (cache'.ops = cache.ops + 1 /\ cache'.last[1] = "cache") =>
            LET st == cache'.last[2]
                id == st.match_id
            IN  /\ (IsSome(st.metadata_salt) /\ IsNone(st.replay_salt)) =>
                        /\ CacheIsIngested(cache'.entries, id, TRUE)
                        /\ CacheIsIngested(cache'.entries, id, FALSE)
                             = CacheIsIngested(cache.entries, id, FALSE)
                /\ (IsSome(st.replay_salt) /\ IsNone(st.metadata_salt)) =>
                        /\ CacheIsIngested(cache'.entries, id, FALSE)
                        /\ CacheIsIngested(cache'.entries, id, TRUE)
                             = CacheIsIngested(cache.entries, id, TRUE)
                /\ cache'.entries # EmptyMap =>
                        \A k \in DOMAIN cache.entries : \A is_metadata \in BOOLEAN :
                            CacheIsIngested(cache.entries, k, is_metadata) =>
                                CacheIsIngested(cache'.entries, k, is_metadata)
      ]_vars

\* C13: after every marking operation the Ingestion Cache holds at most
\* 10,000 entries and each of the listener's sets at most 1,000 match ids.
C13_CacheBounded ==
    cache.ops > 0 =>
        /\ Cardinality(DOMAIN cache.entries) <= CACHE_CEILING
        /\ Cardinality(ingested_metadata) <= INGESTED_SET_CAP
        /\ Cardinality(ingested_replay) <= INGESTED_SET_CAP

\* one marking emptied a cache that was at its ceiling
C13_Witness ==
    /\ cache.ops = 1
    /\ cache.last[1] = "cache"
    /\ cache.entries = EmptyMap

\* C14: every record returned by Salts::from_url has exactly one of
\* metadata_salt / replay_salt populated: the metadata salt alone when the final
\* path segment ends in .meta.bz2, the replay salt alone when it ends in
\* .dem.bz2.
C14_ExactlyOneSalt ==
    (probe.fn = "from_url" /\ probe.done /\ IsSome(probe.output.plain)) =>
        LET st == probe.output.plain[1]
        IN  /\ probe.input.suffix.kind = "metadata" =>
                    IsSome(st.metadata_salt) /\ IsNone(st.replay_salt)
            /\ probe.input.suffix.kind = "replay" =>
                    IsSome(st.replay_salt) /\ IsNone(st.metadata_salt)
            /\ IsSome(st.metadata_salt) # IsSome(st.replay_salt)

\* C15: Salts::from_url returns no record whenever a step of the template
\* match fails, in particular when the cluster id, the match id or the salt
\* does not parse as an unsigned integer of its width.
C15_AnyFailureYieldsNone ==
    (probe.fn = "from_url" /\ probe.done /\ ~UrlFits(probe.input)) =>
        IsNone(probe.output.plain)

\* C16: identifier extraction ignores the query string: from_url gives the
\* same result for a URL and for that URL followed by "?" and a query string,
\* and extract_salts gives the same salts for a request and for the same
\* request with a query string on its target.
C16_QueryIgnored ==
    (probe.fn \in {"from_url", "extract_salts"} /\ probe.done) =>
        probe.output.with_query = probe.output.plain

\* a URL that fits the template gave the same record with a query string that
\* itself holds a path ending in .dem.bz2
C16_Witness ==
    /\ probe.fn = "from_url"
    /\ probe.done
    /\ UrlFits(probe.input)
    /\ probe.input.suffix.kind = "metadata"
    /\ probe.input.query = B("a=/1_2.dem.bz2")
    /\ IsSome(probe.output.plain)
    /\ IsSome(probe.output.plain[1].metadata_salt)
    /\ probe.output.with_query = probe.output.plain

\* C17: for every valid TCP frame, link-layer framed or raw, IPv4 or IPv6,
\* TcpStreamId::from_packet returns a key whose addresses, ports and protocol
\* are the ones encoded in the frame.
C17_KeyMatchesFrame ==
    (/\ probe.fn = "from_packet"
     /\ probe.done
     /\ probe.input.version_ok
     /\ probe.input.protocol = IPPROTO_TCP
     /\ probe.input.cut = "all") =>
        probe.output = Some(KeyOf(probe.input))

\* C18: TcpStreamId::from_packet returns no key for a frame that is too short
\* for its headers, whose network-layer version is neither 4 nor 6, or whose
\* transport protocol is not TCP.
C18_InvalidFrameNoKey ==
    (/\ probe.fn = "from_packet"
     /\ probe.done
     /\ \/ ~probe.input.version_ok
        \/ probe.input.protocol # IPPROTO_TCP
        \/ probe.input.cut # "all") =>
        IsNone(probe.output)

\* C19: find_http_in_packet looks for "GET " only within the first 4096
\* bytes of its input: a "GET " that first occurs beyond them yields no
\* request region.
C19_ScanCapped ==
    (/\ probe.fn = "find_http_in_packet"
     /\ probe.done
     /\ probe.input.has_get
     /\ probe.input.prefix_len >= 4096) =>
        IsNone(probe.output)

\* C20: when "GET " is present the region returned by find_http_in_packet
\* starts at it and runs up to and including the first double CRLF after it,
\* or, without a double CRLF, over the remaining bytes cut to at most 1024;
\* when no "GET " is present the result is none.
C20_RegionOfRequest ==
    (probe.fn = "find_http_in_packet" /\ probe.done) =>
        probe.output =
            IF ~probe.input.has_get THEN None
            ELSE IF probe.input.terminated THEN Some(RequestHead \o Lit_CRLFCRLF)
            ELSE LET rest == RequestHead \o [i \in 1..probe.input.tail_len |-> 98]
                 IN  Some(IF Len(rest) <= 1024 THEN rest ELSE SubSeq(rest, 1, 1024))

\* a request head after ten other bytes, with no double CRLF and 2000 further
\* bytes, gave a region of 1024 bytes
C20_Witness ==
    /\ probe.fn = "find_http_in_packet"
    /\ probe.done
    /\ probe.input.has_get
    /\ ~probe.input.terminated
    /\ probe.input.prefix_len = 10
    /\ probe.input.tail_len = 2000
    /\ IsSome(probe.output)
    /\ Len(probe.output[1]) = 1024
    /\ StartsWith(probe.output[1], Lit_GET)

\* C21: for a relative request target parse_http_request returns
\* http://<host>/<target without its leading slash>, the host being the value
\* of a Host header, in any letter case, among the header lines before the
\* first blank line; a Host line after the first blank line is never used.
C21_HostBeforeBlankLine ==
    (/\ probe.fn = "parse_http_request"
     /\ probe.done
     /\ ~probe.input.target.absolute
     /\ probe.input.cut = "full") =>
        probe.output.url =
            IF probe.input.place = "before" /\ probe.input.name # B("X-Host")
            THEN Some(B("http://replay4")
                        \o (IF probe.input.fold \in {"space", "tab", "spaces"}
                            THEN B(" .valve.net") ELSE <<>>)
                        \o B("/")
                        \o SubSeq(probe.input.target.text, 2,
                                  Len(probe.input.target.text)))
            ELSE None

\* C22: when the request target is an absolute URI (http:// or https://),
\* parse_http_request returns exactly that target, whether or not a Host
\* header is present and whatever its value.
C22_AbsoluteTargetReturned ==
    (/\ probe.fn = "parse_http_request"
     /\ probe.done
     /\ probe.input.target.absolute) =>
        probe.output.url = Some(probe.input.target.text)

\* an absolute https target came back although a Host header named another host
C22_Witness ==
    /\ probe.fn = "parse_http_request"
    /\ probe.done
    /\ probe.input.target.text = B("https://e.com/y")
    /\ probe.input.place = "before"
    /\ probe.input.name = B("Host")
    /\ probe.input.cut = "full"
    /\ probe.output.url = Some(B("https://e.com/y"))

\* C23: unfolding joins every continuation line (a line beginning with a
\* space or a tab) to the preceding header value with exactly one space, and
\* never emits a continuation line as a line of its own.
C23_ContinuationJoined ==
    (probe.fn = "parse_http_request" /\ probe.done) =>
        LET lines == Lines(probe.output.unfolded)
        IN  /\ \A i \in 1..Len(lines) :
                    ~StartsWith(lines[i], Lit_SP) /\ ~StartsWith(lines[i], Lit_TAB)
            /\ (/\ probe.input.fold \in {"space", "tab", "spaces"}
                /\ probe.input.place # "absent"
                /\ probe.input.cut = "full") =>
                    \E i \in 1..Len(lines) :
                        lines[i] = probe.input.name \o B(": replay4 .valve.net")

\* C24: when the bytes seen so far hold a relative request target but no
\* usable Host header (the request line alone, or a request cut inside the
\* name of the Host header), extraction yields none and the stream buffer
\* keeps the bytes.
C24_IncompleteYieldsNone ==
    (/\ probe.fn = "parse_http_request"
     /\ probe.done
     /\ ~probe.input.target.absolute
     /\ probe.input.cut \in {"request_line", "host_name"}) =>
        /\ IsNone(probe.output.url)
        /\ IsNone(probe.output.salts)
        /\ probe.output.kept = HttpOf(probe.input)

\* a request for a metadata file, cut inside "Host", gave no salts and stayed
\* in the buffer
C24_Witness ==
    /\ probe.fn = "parse_http_request"
    /\ probe.done
    /\ probe.input.target.text = B("/a/7_5.meta.bz2")
    /\ probe.input.cut = "host_name"
    /\ IsNone(probe.output.salts)
    /\ EndsWith(probe.output.kept, B("\r\nHo"))

\* C25: listen never returns because of a per-packet failure (no connection
\* key, no extraction result, unparseable URL, rejected match_id, failed
\* delivery): the step that handles a payload and the step that follows the
\* return of ingest leave it in its loop; it returns Ok only when the payload
\* source ends, and Err only when the source could not be set up.
C25_ReturnsOnlyWhenSourceEnds ==
    [][ /\ n_payloads' # n_payloads => lpc' \in {"loop", "ingest"}
        /\ lpc = "ingest" => lpc' \in {"loop", "ingest"}
        /\ (lpc = "loop" /\ lpc' = "returned") =>
                /\ listen_result' = "Ok"
                /\ ipc = "idle"
                /\ n_payloads' = n_payloads
        /\ (lpc' = "returned" /\ listen_result' = "Err") =>
                /\ lpc \in {"init", "returned"}
                /\ n_calls' = n_calls + 1
      ]_vars

\* a record rejected for its match_id, then a frame without a connection key:
\* listen is still in its loop
C25_Witness ==
    /\ lpc = "loop"
    /\ n_calls = 1
    /\ seen = <<F.toolarge, F.junk>>
    /\ listen_result = "none"

\* C26: in listen, when the processing of a payload that had a connection key
\* is over (extraction succeeded or not, delivery succeeded or failed) and the
\* connection table holds more than 1000 entries, the stale entries have been
\* pruned before the next payload is taken.
C26_PrunedAfterEveryPayload ==
    [][ (\/ /\ n_payloads' = n_payloads + 1
            /\ lpc' = "loop"
            /\ IsSome(FromPacket(Frames[seen'[Len(seen')]]))
         \/ lpc = "ingest" /\ lpc' = "loop") =>
            (Cardinality(DOMAIN stream_buffers') > MAX_CONCURRENT_STREAMS =>
                \A id \in DOMAIN stream_buffers' :
                    ~BufIsStale(stream_buffers'[id], STREAM_TIMEOUT, now'))
      ]_vars

\* C27: a read of the capture that times out leaves listen in its loop with no
\* result, so that the next read follows; listen returns an error only from
\* the step that sets the capture up.
C27_TimeoutIsNoData ==
    [][ /\ timeouts' = timeouts + 1 =>
                /\ lpc' = "loop"
                /\ listen_result' = listen_result
                /\ seen' = seen
        /\ (lpc # "returned" /\ lpc' = "returned" /\ listen_result' = "Err") =>
                /\ lpc = "init"
                /\ n_calls' = n_calls + 1
      ]_vars

\* C28: whenever listen has returned, with an error or normally, the next
\* step of its caller is the sleep of the fixed delay, listen is called only
\* from the top of the restart loop, and the call that follows the return does
\* come: the restart loop never ends.
C28_RestartedAfterEveryReturn ==
    /\ [][lpc = "returned" => (lpc' = "init" /\ now' = now + LISTEN_RESTART_SECS)]_vars
    /\ [][n_calls' # n_calls => (lpc = "init" /\ n_calls' = n_calls + 1)]_vars
    /\ \A k \in 1..(MaxListenCalls - 1) :
            (lpc = "returned" /\ n_calls = k) ~> (n_calls = k + 1)

\* the capture could not be set up twice, and listen has been called again
\* each time, one delay later
C28_Witness ==
    /\ lpc = "returned"
    /\ listen_result = "Err"
    /\ n_calls = 2
    /\ n_payloads = 0
    /\ now = LISTEN_RESTART_SECS

\* C29: the body made for a record is `[{` ... `}]` with no other bracket or
\* brace inside, holding exactly four members separated by commas, in the
\* order match_id, cluster_id, metadata_salt, replay_salt; each member is the
\* quoted name, a colon and a value; the value of match_id and cluster_id is
\* the JSON integer of the record's field, the value of a salt is the JSON
\* integer of the salt when it is populated and null when it is not.
C29_JsonBody ==
    (probe.fn = "to_json" /\ probe.done) =>
        LET st == probe.input
            text == probe.output
            inner == Slice(text, 2, Len(text) - 2)
            \* a JSON integer: digits only, no leading zero, of the given value
            IsInteger(v, d) ==
                /\ Len(v) > 0
                /\ \A i \in 1..Len(v) : v[i] >= 48 /\ v[i] <= 57
                /\ Len(v) > 1 => v[1] # 48
                /\ [i \in 1..Len(v) |-> v[i] - 48] = d
            IsValue(v, o) == IF IsSome(o) THEN IsInteger(v, o[1]) ELSE v = B("null")
            IsMember(m, name, o) ==
                /\ StartsWith(m, <<34>> \o name \o <<34, 58>>)
                /\ IsValue(SliceFrom(m, Len(name) + 3), o)
            s1 == SplitOnce(inner, B(","))
            s2 == SplitOnce(s1[1][2], B(","))
            s3 == SplitOnce(s2[1][2], B(","))
        IN  /\ StartsWith(text, B("[{"))
            /\ EndsWith(text, B("}]"))
            /\ \A i \in 1..Len(inner) : inner[i] \notin {91, 93, 123, 125}
            /\ IsSome(s1) /\ IsSome(s2) /\ IsSome(s3)
            /\ ~Contains(s3[1][2], B(","))
            /\ IsMember(s1[1][1], B("match_id"), Some(st.match_id))
            /\ IsMember(s2[1][1], B("cluster_id"), Some(st.cluster_id))
            /\ IsMember(s3[1][1], B("metadata_salt"), st.metadata_salt)
            /\ IsMember(s3[1][2], B("replay_salt"), st.replay_salt)

\* the body of a record with the largest match id, no metadata salt and the
\* largest replay salt has been made
C29_Witness ==
    /\ probe.fn = "to_json"
    /\ probe.done
    /\ probe.input.match_id = U64_MAX
    /\ probe.input.metadata_salt = None
    /\ probe.input.replay_salt = Some(U32_MAX)
    /\ Contains(probe.output, B("\"metadata_salt\":null,"))

\* C30: with both workers going through is_ingested, delivery and
\* mark_ingested on the shared cache, no (match_id, salt kind) pair has been
\* delivered by both of them since the cache was last cleared.
C30_NoPairDeliveredByBoth ==
    lpc = "workers" => workers["capture"].sent \cap workers["watcher"].sent = {}

\* C31: a thread performs the file operations of append_to_log_file only
\* while it holds no guard of the Ingestion Cache; a thread that holds a guard
\* is at the in-memory update or lookup, which it can always take at once; so
\* a thread kept from the lock is kept by a holder that is one in-memory
\* step from releasing it.
C31_NoIoUnderLock ==
    [][ lpc = "lock" =>
          /\ \A t \in DOMAIN workers :
                workers'[t].io # workers[t].io =>
                    (workers[t].lock = "none" /\ workers'[t].lock = "none")
          /\ \A t \in DOMAIN workers :
                workers'[t].lock # "none" => workers'[t].pc \in {"update", "lookup"}
      ]_vars

\* the watcher has written its log line and waits for the write lock, which
\* the capture thread holds for its update
C31_Witness ==
    /\ lpc = "lock"
    /\ workers["capture"].lock = "write"
    /\ workers["capture"].pc = "update"
    /\ workers["watcher"].pc = "write"
    /\ workers["watcher"].io = 1

\* C32: an append whose fragment would take the buffer beyond
\* MAX_STREAM_BUFFER_SIZE leaves the bytes and the last-activity time as they
\* were; any other append leaves the old bytes followed by the whole fragment
\* and sets the last-activity time to the time of the call.
C32_AppendAllOrNothing ==
    [][ (buf'.ops = buf.ops + 1 /\ buf'.last[1] = "append") =>
            LET n == buf'.last[2]
            IN  IF Len(buf.b.data) + n > MAX_STREAM_BUFFER_SIZE
                THEN buf'.b = buf.b
                ELSE /\ Len(buf'.b.data) = Len(buf.b.data) + n
                     /\ Slice(buf'.b.data, 0, Len(buf.b.data)) = buf.b.data
                     /\ \A i \in 1..n : buf'.b.data[Len(buf.b.data) + i] = buf.ops + 1
                     /\ buf'.b.last_activity = now
      ]_vars

\* a buffer filled to the cap, then, later, one byte more was refused: the
\* bytes and the time of the first append are still there
C32_Witness ==
    /\ lpc = "buffer"
    /\ buf.last = <<"append", 1>>
    /\ buf.ops = 2
    /\ Len(buf.b.data) = MAX_STREAM_BUFFER_SIZE
    /\ buf.b.last_activity = 0
    /\ now > 0

\* C33: an IPv4 packet whose protocol field is TCP and that carries, after
\* its header of IHL words, at least the four port bytes, gets a key from the
\* Connection Identifier, whether the rest of the TCP header was captured or
\* not.
C33_PortsSufficeIpv4 ==
    (/\ probe.fn = "from_packet"
     /\ probe.done
     /\ probe.input.family = 4
     /\ probe.input.version_ok
     /\ probe.input.protocol = IPPROTO_TCP
     /\ probe.input.cut \in {"all", "ports"}) =>
        IsSome(probe.output)

\* C34: within a call of listen, an entry leaves the connection table only in
\* a step whose table, the entry of the payload's connection included, holds
\* more than 1000 entries; an entry with activity within the last 30 s never
\* leaves it; and when the clean-up at the end of the loop body is reached
\* with more than 1000 entries, no entry idle for more than 30 s is left.
C34_PruneRemovesExactlyStale ==
    [][ n_calls' = n_calls =>
          \A key \in {IF n_payloads' # n_payloads
                      THEN FromPacket(Frames[seen'[Len(seen')]]) ELSE None} :
          \A removed \in {DOMAIN stream_buffers \ DOMAIN stream_buffers'} :
          \A over \in {Cardinality(DOMAIN stream_buffers
                                        \cup (IF IsSome(key) THEN {key[1]} ELSE {}))
                            > MAX_CONCURRENT_STREAMS} :
              /\ removed # {} => over
              /\ \A id \in removed :
                    BufIsStale(stream_buffers[id], STREAM_TIMEOUT, now)
              /\ (/\ over
                  /\ lpc' = "loop"
                  /\ IsSome(key) \/ (lpc = "ingest" /\ result = "Ok")) =>
                    \A id \in DOMAIN stream_buffers' :
                        ~BufIsStale(stream_buffers'[id], STREAM_TIMEOUT, now')
      ]_vars

\* 1000 connections idle for 31 s, then a payload of another connection: the
\* table is left with the buffer of that connection alone
C34_Witness ==
    /\ lpc = "loop"
    /\ now > STREAM_TIMEOUT
    /\ seen = <<F.other>>
    /\ DOMAIN stream_buffers = {Unwrap(FromPacket(Frames[F.other]))}
    /\ stream_buffers[Unwrap(FromPacket(Frames[F.other]))].last_activity = now

\* C35: in the platform capture loop, the step that handles a packet leaves
\* listen in its loop, whether a delivery was made and failed or not; a URL
\* enters the set of ingested URLs only in a step that delivered it
\* successfully; and a URL is delivered only while it is not in the set, so at
\* most once per run of the loop.
C35_LegacyLoopSurvivesFailure ==
    [][ /\ n_payloads' # n_payloads => lpc' = "loop"
        /\ \A u \in ingested_urls' \ ingested_urls :
                /\ u \in DOMAIN delivered'
                /\ delivered'[u] = (IF u \in DOMAIN delivered THEN delivered[u] ELSE 0) + 1
        /\ delivered' # delivered =>
                \A u \in DOMAIN delivered' :
                    (u \notin DOMAIN delivered \/ delivered'[u] # delivered[u]) =>
                        (u \notin ingested_urls /\ u \in ingested_urls')
      ]_vars

\* C36: when listen takes a frame that has a connection key and that holds, by
\* itself, a complete GET request for a salt file, the record of that request
\* is what the iteration extracts, whatever the buffer of the connection held
\* before.
C36_CompleteRequestDetected ==
    [][ n_payloads' = n_payloads + 1 =>
          \A frame \in {Frames[seen'[Len(seen')]]} :
          \A alone \in {ExtractSalts(frame)} :
              (IsSome(FromPacket(frame)) /\ IsSome(alone)) => salts' = alone
      ]_vars

\* C37: a complete request whose Host header is continued on a folded line
\* (one space, one tab or several spaces before `.valve.net`) gives, through
\* find_http_in_packet, parse_http_request and Salts::from_url, the record
\* that the same request gives with `.valve.net` on the line of the Host
\* header.
C37_FoldedHostSameRecord ==
    (/\ probe.fn = "parse_http_request"
     /\ probe.done
     /\ probe.input.cut = "full"
     /\ probe.input.place = "before"
     /\ probe.input.name # B("X-Host")
     /\ probe.input.fold \in {"space", "tab", "spaces"}) =>
        probe.output.salts =
            ExtractSalts(HttpOf([probe.input EXCEPT !.fold = "one_line"]))

\* C38: notify never makes its caller wait: the channel never holds more than
\* SYNC_CHANNEL_BOUND match ids; a caller that reaches try_send always leaves
\* notify in that step, and when the channel is full the id is dropped and the
\* channel is as it was; the worker thread is spawned at most once; and a call
\* entered while notifications are disabled returns with the channel untouched.
C38_NotifyNeverBlocks ==
    [][ lpc = "statlocker" =>
          /\ Len(probe'.queue) <= SYNC_CHANNEL_BOUND
          /\ probe'.spawned <= 1
          /\ \A t \in {"capture", "watcher"} :
                /\ (workers[t].pc = "try_send" /\ workers'[t] # workers[t]) =>
                      /\ workers'[t].pc = "idle"
                      /\ IF Len(probe.queue) = SYNC_CHANNEL_BOUND
                         THEN /\ probe'.queue = probe.queue
                              /\ workers'[t].outcome = "dropped"
                         ELSE /\ probe'.queue = Append(probe.queue, workers[t].match_id)
                              /\ workers'[t].outcome = "queued"
                /\ (/\ workers[t].pc = "idle"
                    /\ workers'[t].rounds # workers[t].rounds
                    /\ ~probe.STATLOCKER_ENABLED) =>
                      /\ workers'[t].pc = "idle"
                      /\ workers'[t].outcome = "returned"
                      /\ probe' = probe
          /\ Len(probe'.queue) > Len(probe.queue) =>
                \E t \in {"capture", "watcher"} :
                    /\ workers[t].pc = "try_send"
                    /\ workers'[t].pc = "idle"
                    /\ workers[t].entered_enabled
      ]_vars

\* both callers have been through sender(), one worker exists, the channel is
\* full, one caller's id has just been dropped and the other caller, which
\* entered after disable(), has returned at once
C38_Witness ==
    /\ lpc = "statlocker"
    /\ Len(probe.queue) = SYNC_CHANNEL_BOUND
    /\ probe.spawned = 1
    /\ workers["capture"].outcome = "dropped"
    /\ workers["capture"].pc = "idle"
    /\ ~probe.STATLOCKER_ENABLED
    /\ workers["watcher"].outcome = "returned"

\* C39: two connection keys that differ in the address family of their source
\* or of their destination address are not equal; two keys with the same
\* addresses, ports and protocol are equal; and two equal keys give the hasher
\* the same bytes, so they hash to the same value.
C39_KeyEqualityAndHash ==
    (lpc = "probe" /\ probe.fn = "key_pair" /\ probe.done) =>
        /\ (\/ probe.input.a.src_ip[1] # probe.input.b.src_ip[1]
            \/ probe.input.a.dst_ip[1] # probe.input.b.dst_ip[1]) => ~probe.output.eq
        /\ probe.input.a = probe.input.b => probe.output.eq
        /\ probe.output.eq => probe.output.hash_a = probe.output.hash_b

\* an IPv4 key and the key with the IPv4-mapped IPv6 forms of the same two
\* addresses, same ports and protocol, have been compared
C39_Witness ==
    /\ lpc = "probe"
    /\ probe.fn = "key_pair"
    /\ probe.done
    /\ probe.input.a.src_ip = <<"V4", SourceAddress(4, FALSE)>>
    /\ probe.input.a.dst_ip = <<"V4", DestinationAddress(4)>>
    /\ probe.input.b.src_ip = <<"V6", Ipv4Mapped(SourceAddress(4, FALSE))>>
    /\ probe.input.b.dst_ip = <<"V6", Ipv4Mapped(DestinationAddress(4))>>
    /\ probe.input.a.dst_port = probe.input.b.dst_port
    /\ probe.input.a.protocol = probe.input.b.protocol
    /\ ~probe.output.eq

\* C40: current_steam_id3 never overflows and never panics: for every id
\* read from loginusers.vdf it returns the difference id64 - STEAM_ID_64_IDENT
\* when the id is not below the base and the difference fits 32 bits, and
\* none otherwise (also when no id could be read).
C40_SteamId3ExactOrNone ==
    (lpc = "probe" /\ probe.fn = "current_steam_id3" /\ probe.done) =>
        /\ ~probe.output.overflow
        /\ ~probe.output.panic
        /\ probe.output.value =
              (IF probe.input = None \/ DecLt(probe.input[1], STEAM_ID_64_IDENT)
               THEN None
               ELSE IF DecGt(DecSub(probe.input[1], STEAM_ID_64_IDENT), U32_MAX)
               THEN None
               ELSE Some(DecSub(probe.input[1], STEAM_ID_64_IDENT)))

====
